---------------------------- MODULE Spec2Model ----------------------------
(***************************************************************************)
(* Triage and approval workflow of the AI Employee system:                 *)
(*   - KeywordAnalyzer (skills/keyword_analyzer.py): the classifier,       *)
(*   - GmailWatcher (Watchers/gmail_watcher.py): ingestion of mail,        *)
(*   - ApprovedPlanExecutor, EmailToInboxMover (skills/): the executors,   *)
(*   - GoogleChatWatcher (Watchers/google_chat_watcher.py),                *)
(*   - FailureManager (Watchers/failure_manager.py): health supervision.   *)
(* Texts are TLA+ strings; a substring test, a regular expression or a     *)
(* split is computed character by character as the Python code does.       *)
(***************************************************************************)
EXTENDS Integers, Sequences, FiniteSets, TLC

VARIABLES
    \* ---- the mail provider and the clock (environment)
    mailbox,         \* ids of the unread important messages the provider lists
    now,             \* wall clock, in seconds (datetime.now())
    \* ---- the vault: per state folder, a map filename -> content
    vault,
    \* ---- GmailWatcher
    processed_ids,   \* GmailWatcher._processed_ids (in memory)
    gmail_cache,     \* .gmail_cache.json
    items,           \* the batch check_for_updates returned, not yet handled
    pc,              \* position of the watcher thread in GmailWatcher.run
    \* ---- ApprovedPlanExecutor
    exec_processed,  \* ApprovedPlanExecutor._processed_plans (in memory)
    exec_file,       \* .approved_plans_executed.json
    \* ---- EmailToInboxMover
    mover_processed, \* EmailToInboxMover._processed_plans (in memory)
    mover_file,      \* .processed_plans.json
    \* ---- what the program did (history, read by the properties only)
    sent,            \* the calls of EmailSender.send_email, in order
    executed,        \* the plans _execute_plan was called on, in order
    stop_event,      \* BaseWatcher._stop_event: stop() was called
    faults,          \* number of failures injected so far
    restarts,        \* number of process restarts so far
    \* ---- GoogleChatWatcher
    chat_space,      \* ids of the messages the chat space lists
    chat_processed,  \* GoogleChatWatcher._processed_ids
    chat_items,      \* the batch its check_for_updates returned
    chat_cache,      \* .google_chat_cache.json
    chats,           \* Chats/ folder: a map filename -> content
    \* ---- FailureManager
    watchers,        \* FailureManager._watchers, in insertion order
    alerts,          \* the alert files _create_alert wrote, in order
    streak_alerts,   \* per worker, threshold alerts written in this streak
    restart_log,     \* the restart attempts _attempt_restart logged
    \* ---- BaseWatcher.run, on a subclass that does not override it
    base_items,      \* the batch check_for_updates returned, not yet handled
    base_pc,         \* position of the thread in BaseWatcher.run
    base_cycle,      \* number of the round of the loop
    base_calls,      \* the calls of create_action_file and how they ended
    \* ---- the two threads that use the FailureManager, step by step
    hb,              \* the orchestrator thread inside update_heartbeat
    mon,             \* the monitor thread inside _check_all_watchers
    \* ---- KeywordAnalyzer
    hashseed,        \* string hash seed of the running process
    input,           \* the (sender, subject, body, history) under test
    results          \* the outputs analyze returned for input, in order

mailVars == <<mailbox, now, vault, processed_ids, gmail_cache, items, pc,
              exec_processed, exec_file, mover_processed, mover_file,
              sent, executed, stop_event, faults, restarts>>

chatVars == <<chat_space, chat_processed, chat_items, chat_cache, chats>>

healthVars == <<watchers, alerts, streak_alerts, restart_log>>

classifyVars == <<input, results>>

baseVars == <<base_items, base_pc, base_cycle, base_calls>>

raceVars == <<hb, mon>>

vars == <<mailVars, chatVars, healthVars, classifyVars, baseVars, raceVars,
         hashseed>>

(***************************************************************************)
(* Strings, as Python computes on them.                                    *)
(***************************************************************************)

Char(s, i) == SubSeq(s, i, i)

\* Python: kw in text
Contains(kw, text) ==
    \E i \in 1..(Len(text) - Len(kw) + 1) : SubSeq(text, i, i + Len(kw) - 1) = kw

\* Python: text.startswith(p), from position i
StartsAt(p, text, i) ==
    /\ i + Len(p) - 1 <= Len(text)
    /\ SubSeq(text, i, i + Len(p) - 1) = p

\* str.lower() and str.upper(), letter by letter
LowerOf ==
    [A |-> "a", B |-> "b", C |-> "c", D |-> "d", E |-> "e", F |-> "f",
     G |-> "g", H |-> "h", I |-> "i", J |-> "j", K |-> "k", L |-> "l",
     M |-> "m", N |-> "n", O |-> "o", P |-> "p", Q |-> "q", R |-> "r",
     S |-> "s", T |-> "t", U |-> "u", V |-> "v", W |-> "w", X |-> "x",
     Y |-> "y", Z |-> "z"]

UpperOf ==
    [a |-> "A", b |-> "B", c |-> "C", d |-> "D", e |-> "E", f |-> "F",
     g |-> "G", h |-> "H", i |-> "I", j |-> "J", k |-> "K", l |-> "L",
     m |-> "M", n |-> "N", o |-> "O", p |-> "P", q |-> "Q", r |-> "R",
     s |-> "S", t |-> "T", u |-> "U", v |-> "V", w |-> "W", x |-> "X",
     y |-> "Y", z |-> "Z"]

LowerChar(c) == IF c \in DOMAIN LowerOf THEN LowerOf[c] ELSE c

UpperChar(c) == IF c \in DOMAIN UpperOf THEN UpperOf[c] ELSE c

\* the characters i..j of s in lower case
RECURSIVE LowerRange(_, _, _)
LowerRange(s, i, j) ==
    IF i > j THEN ""
    ELSE IF i = j THEN LowerChar(Char(s, i))
    ELSE LowerRange(s, i, (i + j) \div 2) \o LowerRange(s, (i + j) \div 2 + 1, j)

\* Python: s.lower()
Lower(s) == LowerRange(s, 1, Len(s))

\* Python: s.capitalize()
Capitalize(s) ==
    IF s = "" THEN "" ELSE UpperChar(Char(s, 1)) \o LowerRange(s, 2, Len(s))

\* regex \s
IsSpace(c) == c \in {" ", "\n", "\t"}

\* regex \w: letters, digits and the underscore
WordChars ==
    {"a", "b", "c", "d", "e", "f", "g", "h", "i", "j", "k", "l", "m",
     "n", "o", "p", "q", "r", "s", "t", "u", "v", "w", "x", "y", "z",
     "A", "B", "C", "D", "E", "F", "G", "H", "I", "J", "K", "L", "M",
     "N", "O", "P", "Q", "R", "S", "T", "U", "V", "W", "X", "Y", "Z",
     "0", "1", "2", "3", "4", "5", "6", "7", "8", "9", "_"}

IsWord(c) == c \in WordChars

\* Python: s.strip()
Strip(s) ==
    LET keep == {i \in 1..Len(s) : ~IsSpace(Char(s, i))}
    IN  IF keep = {} THEN ""
        ELSE SubSeq(s, CHOOSE i \in keep : \A j \in keep : i <= j,
                       CHOOSE i \in keep : \A j \in keep : j <= i)

\* Python: s.strip(c) for one character c
StripChar(s, c) ==
    LET keep == {i \in 1..Len(s) : Char(s, i) # c}
    IN  IF keep = {} THEN ""
        ELSE SubSeq(s, CHOOSE i \in keep : \A j \in keep : i <= j,
                       CHOOSE i \in keep : \A j \in keep : j <= i)

\* end (exclusive) of the run of \s, or of \w, that starts at i
RECURSIVE SpaceRunEnd(_, _)
SpaceRunEnd(s, i) ==
    IF i <= Len(s) /\ IsSpace(Char(s, i)) THEN SpaceRunEnd(s, i + 1) ELSE i

RECURSIVE WordRunEnd(_, _)
WordRunEnd(s, i) ==
    IF i <= Len(s) /\ IsWord(Char(s, i)) THEN WordRunEnd(s, i + 1) ELSE i

\* Python: sep.join(seq)
RECURSIVE Join(_, _)
Join(sep, seq) ==
    IF seq = <<>> THEN ""
    ELSE IF Len(seq) = 1 THEN seq[1]
    ELSE seq[1] \o sep \o Join(sep, Tail(seq))

\* Python: seq[:n]
Take(seq, n) == SubSeq(seq, 1, IF Len(seq) < n THEN Len(seq) ELSE n)

Range(seq) == {seq[i] : i \in 1..Len(seq)}

Min(a, b) == IF a < b THEN a ELSE b
Max(a, b) == IF a > b THEN a ELSE b

(***************************************************************************)
(* KeywordAnalyzer: the class tables (keyword_analyzer.py 49-145).         *)
(* A dict is a sequence of <<key, value>> in insertion order, which Python *)
(* iterates in; BUSINESS_CRITICAL is a set, iterated in hash order.        *)
(***************************************************************************)

PRIORITY_KEYWORDS ==
    << <<"urgent", 5>>, <<"emergency", 5>>, <<"critical", 5>>,
       <<"immediate", 5>>, <<"asap", 5>>, <<"deadline today", 5>>,
       <<"now", 5>>, <<"right away", 5>>, <<"deadline", 4>>,
       <<"important", 4>>, <<"priority", 4>>, <<"time sensitive", 4>>,
       <<"expiring", 4>>, <<"expiring soon", 4>>, <<"last chance", 4>>,
       <<"final notice", 4>>, <<"overdue", 4>>, <<"payment due", 4>>,
       <<"contract", 4>>, <<"agreement", 4>>, <<"legal", 4>>,
       <<"compliance", 4>>, <<"regulatory", 4>>, <<"audit", 4>>,
       <<"meeting", 3>>, <<"call", 3>>, <<"schedule", 3>>,
       <<"appointment", 3>>, <<"interview", 3>>, <<"demo", 3>>,
       <<"presentation", 3>>, <<"review", 3>>, <<"invoice", 3>>,
       <<"quote", 3>>, <<"proposal", 3>>, <<"estimate", 3>>,
       <<"project", 3>>, <<"deliverable", 3>>, <<"milestone", 3>>,
       <<"release", 3>>, <<"update", 2>>, <<"status", 2>>,
       <<"progress", 2>>, <<"report", 2>>, <<"question", 2>>,
       <<"inquiry", 2>>, <<"request", 2>>, <<"help", 2>>,
       <<"support", 2>>, <<"assistance", 2>>, <<"guidance", 2>>,
       <<"advice", 2>>, <<"feedback", 2>>, <<"input", 2>>,
       <<"thoughts", 2>>, <<"opinion", 2>>, <<"discussion", 2>>,
       <<"consult", 2>>, <<"advise", 2>>, <<"confirm", 2>>,
       <<"information", 1>>, <<"fyi", 1>>, <<"for your information", 1>>,
       <<"newsletter", 1>>, <<"announcement", 1>>, <<"notification", 1>>,
       <<"marketing", 1>>, <<"promotion", 1>>, <<"offer", 1>> >>

RISK_KEYWORDS ==
    << <<"lawsuit", 100>>, <<"legal action", 100>>, <<"court", 100>>,
       <<"litigation", 100>>, <<"breach", 100>>, <<"violation", 100>>,
       <<"penalty", 100>>, <<"fine", 100>>, <<"complaint", 75>>,
       <<"dispute", 75>>, <<"conflict", 75>>, <<"escalation", 75>>,
       <<"unhappy", 75>>, <<"dissatisfied", 75>>, <<"cancel", 75>>,
       <<"termination", 75>>, <<"refund", 75>>, <<"chargeback", 75>>,
       <<"money back", 75>>, <<"confidential", 50>>, <<"secret", 50>>,
       <<"proprietary", 50>>, <<"sensitive", 50>>, <<"nda", 50>>,
       <<"non-disclosure", 50>>, <<"private", 50>>, <<"financial", 50>>,
       <<"bank", 50>>, <<"credit", 50>>, <<"payment", 50>>,
       <<"salary", 50>>, <<"compensation", 50>>, <<"negotiate", 50>>,
       <<"bargain", 50>>, <<"contract", 25>>, <<"agreement", 25>>,
       <<"terms", 25>>, <<"conditions", 25>>, <<"commit", 25>>,
       <<"promise", 25>>, <<"guarantee", 25>>, <<"deadline", 25>>,
       <<"delivery", 25>>, <<"shipment", 25>>, <<"launch", 25>>,
       <<"release", 25>> >>

BUSINESS_CRITICAL ==
    { "pricing", "price", "cost", "quote", "estimate", "proposal", "bid",
      "contract", "agreement", "nda", "sign", "signature", "execute",
      "commitment", "deliverable", "promise", "guarantee", "warranty",
      "payment", "invoice", "pay", "refund", "billing", "charge",
      "legal", "lawsuit", "attorney", "liability", "indemnify",
      "project", "service", "product", "feature", "specification",
      "scope", "attach", "attachment", "document", "file" }

CATEGORIES ==
    << <<"finance", <<"invoice", "payment", "quote", "pricing", "cost",
                      "budget", "financial", "billing">> >>,
       <<"legal", <<"contract", "agreement", "legal", "nda", "lawsuit",
                    "attorney", "compliance">> >>,
       <<"hr", <<"hiring", "firing", "recruit", "interview", "salary",
                 "employment", "resume", "candidate">> >>,
       <<"project", <<"project", "deliverable", "milestone", "deadline",
                      "scope", "timeline", "release">> >>,
       <<"meeting", <<"meeting", "call", "schedule", "appointment",
                      "calendar", "zoom", "teams">> >>,
       <<"support", <<"help", "support", "issue", "problem", "error",
                      "bug", "fix", "troubleshoot">> >>,
       <<"sales", <<"sales", "lead", "prospect", "customer", "client",
                    "opportunity", "deal">> >>,
       <<"marketing", <<"marketing", "campaign", "promotion",
                        "advertisement", "social media">> >>,
       <<"operations", <<"operations", "process", "workflow", "procedure",
                         "logistics", "inventory">> >>,
       <<"technical", <<"technical", "development", "engineering", "api",
                        "integration", "code">> >>,
       <<"communication", <<"update", "announcement", "newsletter",
                            "notification", "fyi", "information">> >> >>

\* Each regular expression  <literal>\s+(\w+)  is the set of its literals
\* (require[s]? has two).
ACTION_PATTERNS ==
    << {"please"}, {"can you"}, {"could you"}, {"would you"},
       {"need you to"}, {"require", "requires"}, {"looking for"},
       {"i want"}, {"interested in"} >>

SAFE_PATTERNS ==
    << "thank you", "thanks", "appreciate", "acknowledged", "received",
       "got it", "noted", "understood", "confirm receipt",
       "well received" >>

\* KeywordAnalyzer.company_keywords: the handbook BaseWatcher writes has no
\* keyword section, so the set is empty.
company_keywords == {}

(***************************************************************************)
(* Iteration order of a Python set of strings. It is a function of the     *)
(* process's string hash seed and of the set, fixed while the process      *)
(* lives: here the rotation, by the seed, of one fixed enumeration.        *)
(***************************************************************************)

RECURSIVE SetToSeq(_)
SetToSeq(S) ==
    IF S = {} THEN <<>>
    ELSE LET x == CHOOSE y \in S : TRUE IN <<x>> \o SetToSeq(S \ {x})

\* c, begun at its element number seed (counting from 0, modulo its length)
Rotate(c, seed) ==
    IF c = <<>> THEN <<>>
    ELSE [i \in 1..Len(c) |-> c[((i - 1 + seed) % Len(c)) + 1]]

\* The iteration order of a Python set of strings: fixed within a process,
\* a function of the process's hash seed across processes.
HashOrder(S, seed) == Rotate(SetToSeq(S), seed)

BUSINESS_CRITICAL_order == SetToSeq(BUSINESS_CRITICAL)

\* the strings of seq that occur in text, in the order of seq
SelectIn(seq, text) == SelectSeq(seq, LAMBDA kw : Contains(kw, text))

(***************************************************************************)
(* KeywordAnalyzer: the analysis (keyword_analyzer.py 191-628).            *)
(***************************************************************************)

\* the weights of the table's keywords that occur in text, in table order
Matched(table, text) == SelectSeq(table, LAMBDA p : Contains(p[1], text))

RECURSIVE SumWeights(_)
SumWeights(pairs) ==
    IF pairs = <<>> THEN 0 ELSE Head(pairs)[2] + SumWeights(Tail(pairs))

RECURSIVE MaxWeight(_)
MaxWeight(pairs) ==
    IF pairs = <<>> THEN 0 ELSE Max(Head(pairs)[2], MaxWeight(Tail(pairs)))

PriorityLabel(score) ==
    CASE score = 5 -> "urgent"
      [] score = 4 -> "high"
      [] score = 3 -> "medium"
      [] score = 2 -> "normal"
      [] score = 1 -> "low"
      [] OTHER -> "normal"

HasUrgencyBooster(text) ==
    \E word \in {"!", "urgent", "asap", "immediately"} : Contains(word, text)

\* _calculate_priority with the floor of 1 applied before the boost
CalculatePriority_FloorFirst(text) ==
    LET hits    == Matched(PRIORITY_KEYWORDS, text)
        company == \E kw \in company_keywords : Contains(kw, text)
        base    == IF company THEN Max(3, MaxWeight(hits)) ELSE MaxWeight(hits)
        floor   == Max(1, base)
        score   == IF HasUrgencyBooster(text) THEN Min(5, floor + 1) ELSE floor
    IN  [score |-> score,
         label |-> PriorityLabel(score),
         matched_keywords |-> [i \in 1..Len(hits) |-> hits[i][1]]]

\* _calculate_priority
CalculatePriority(text) ==
    LET hits    == Matched(PRIORITY_KEYWORDS, text)
        company == \E kw \in company_keywords : Contains(kw, text)
        base    == IF company THEN Max(3, MaxWeight(hits)) ELSE MaxWeight(hits)
        boosted == IF HasUrgencyBooster(text) THEN Min(5, base + 1) ELSE base
        score   == Max(1, boosted)
    IN  [score |-> score,
         label |-> PriorityLabel(score),
         matched_keywords |-> [i \in 1..Len(hits) |-> hits[i][1]]]

\* number of the category's keywords that occur in text
CategoryScore(keywords, text) == Len(SelectIn(keywords, text))

\* scores of _detect_category, one per category in table order (the code
\* keeps the positive ones)
CategoryScores(text) ==
    [i \in 1..Len(CATEGORIES) |-> CategoryScore(CATEGORIES[i][2], text)] \o <<>>

\* max(scores, key=scores.get): the first category, in table order, with the
\* highest score
BestCategory(scores) ==
    CHOOSE i \in 1..Len(scores) :
        /\ \A j \in 1..Len(scores) : scores[j] <= scores[i]
        /\ \A j \in 1..(i - 1) : scores[j] < scores[i]

\* _detect_category; confidence in tenths (0.3 per hit, at most 1.0)
DetectCategory(text) ==
    LET scores == CategoryScores(text)
        best   == BestCategory(scores)
    IN  IF scores[best] = 0
        THEN [category |-> "general", confidence |-> 5]
        ELSE [category |-> CATEGORIES[best][1],
              confidence |-> Min(10, 3 * scores[best])]

RiskLevel(total_score) ==
    IF total_score >= 75 THEN "critical"
    ELSE IF total_score >= 50 THEN "high"
    ELSE IF total_score >= 25 THEN "medium"
    ELSE IF total_score >= 10 THEN "low"
    ELSE "safe"

\* the business-critical terms in text, in the iteration order of the set
BusinessTermsIn(text, seed) ==
    SelectIn(Rotate(BUSINESS_CRITICAL_order, seed), text)

\* _assess_risk without the cap of the score at 100
AssessRisk_Uncapped(text, seed) ==
    LET hits  == Matched(RISK_KEYWORDS, text)
        terms == BusinessTermsIn(text, seed)
        total == SumWeights(hits) + 15 * Len(terms)
    IN  [level   |-> RiskLevel(total),
         score   |-> total,
         factors |-> [i \in 1..Len(hits) |-> <<"detected", hits[i][1]>>]
                     \o [i \in 1..Len(terms) |-> <<"Business-critical", terms[i]>>]]

\* _assess_risk
AssessRisk(text, seed) ==
    LET hits  == Matched(RISK_KEYWORDS, text)
        terms == BusinessTermsIn(text, seed)
        total == SumWeights(hits) + 15 * Len(terms)
    IN  [level   |-> RiskLevel(total),
         score   |-> Min(100, total),
         factors |-> [i \in 1..Len(hits) |-> <<"detected", hits[i][1]>>]
                     \o [i \in 1..Len(terms) |-> <<"Business-critical", terms[i]>>]]

\* One match of  <literal>\s+(\w+)  starting at i: the index after its last
\* character, or 0 when there is none.
MatchEnd(literals, text, i) ==
    IF \E p \in literals :
         /\ StartsAt(p, text, i)
         /\ SpaceRunEnd(text, i + Len(p)) > i + Len(p)
         /\ WordRunEnd(text, SpaceRunEnd(text, i + Len(p)))
                > SpaceRunEnd(text, i + Len(p))
    THEN LET p == CHOOSE q \in literals :
                     /\ StartsAt(q, text, i)
                     /\ SpaceRunEnd(text, i + Len(q)) > i + Len(q)
                     /\ WordRunEnd(text, SpaceRunEnd(text, i + Len(q)))
                            > SpaceRunEnd(text, i + Len(q))
         IN  WordRunEnd(text, SpaceRunEnd(text, i + Len(p)))
    ELSE 0

\* re.finditer: the matches from left to right, none overlapping another
\* the least element of a non-empty set of numbers
Least(S) == CHOOSE x \in S : \A y \in S : x <= y

\* re.finditer: the matches left to right, each search resuming where the
\* last match ended; starts are the positions where a match can begin
RECURSIVE FindFrom(_, _, _, _)
FindFrom(literals, text, starts, pos) ==
    LET ahead == {p \in starts : p >= pos}
    IN  IF ahead = {} THEN <<>>
        ELSE LET p == Least(ahead)
                 e == MatchEnd(literals, text, p)
             IN  <<SubSeq(text, p, e - 1)>> \o FindFrom(literals, text, starts, e)

FindIter(literals, text, pos) ==
    FindFrom(literals, text,
             {p \in 1..Len(text) : MatchEnd(literals, text, p) > 0}, pos)

RECURSIVE PatternActions(_, _)
PatternActions(patterns, text) ==
    IF patterns = <<>> THEN <<>>
    ELSE SelectSeq(FindIter(Head(patterns), text, 1), LAMBDA a : Len(a) > 5)
         \o PatternActions(Tail(patterns), text)

\* re.split(r'[.!?]', text), from position pos with the piece begun at start
RECURSIVE SplitAt(_, _, _)
SplitAt(text, delims, start) ==
    LET ahead == {d \in delims : d >= start}
    IN  IF ahead = {} THEN <<SubSeq(text, start, Len(text))>>
        ELSE <<SubSeq(text, start, Least(ahead) - 1)>>
             \o SplitAt(text, delims, Least(ahead) + 1)

SplitSentences(text, start, pos) ==
    SplitAt(text, {d \in pos..Len(text) : Char(text, d) \in {".", "!", "?"}},
            start)

ACTION_VERBS == {"please", "can you", "could you", "would you", "need to", "should"}

RECURSIVE SentenceActions(_)
SentenceActions(sentences) ==
    IF sentences = <<>> THEN <<>>
    ELSE LET sentence == Head(sentences)
         IN  (IF /\ \E verb \in ACTION_VERBS : Contains(verb, sentence)
                 /\ Len(Strip(sentence)) > 10
              THEN <<Strip(sentence)>> ELSE <<>>)
             \o SentenceActions(Tail(sentences))

\* the cap of list(set(action_items))[:5]
MaxActionItems == 5

\* _extract_action_items
ExtractActionItems(text, seed) ==
    LET found == PatternActions(ACTION_PATTERNS, text)
                 \o SentenceActions(SplitSentences(text, 1, 1))
    IN  Take(HashOrder(Range(found), seed), MaxActionItems)

\* _extract_business_terms
ExtractBusinessTerms(text, seed) ==
    HashOrder(Range(BusinessTermsIn(text, seed)), seed)

REQUEST_INDICATORS == {"please", "can you", "could you", "would you", "need", "help"}

\* _needs_reply with a rule that a safe acknowledgment asks for a reply
NeedsReply_SafePatternReplies(text, action_items) ==
    \/ Contains("?", text)
    \/ action_items # <<>>
    \/ \E indicator \in REQUEST_INDICATORS : Contains(indicator, text)
    \/ \E word \in {"fw:", "fwd:", "re:"} : Contains(word, text)
    \/ \E k \in 1..Len(SAFE_PATTERNS) : Contains(SAFE_PATTERNS[k], text)

\* _needs_reply
NeedsReply(text, action_items) ==
    \/ Contains("?", text)
    \/ action_items # <<>>
    \/ \E indicator \in REQUEST_INDICATORS : Contains(indicator, text)
    \/ \E word \in {"fw:", "fwd:", "re:"} : Contains(word, text)

IsSafePattern(text) ==
    \E k \in 1..Len(SAFE_PATTERNS) : Contains(SAFE_PATTERNS[k], text)

\* _determine_approval letting a safe pattern through at any risk under 50
DetermineApproval_SafePatternAnyRisk(text, risk_score, business_terms, action_items, history) ==
    IF risk_score >= 50 THEN <<FALSE, TRUE>>
    ELSE IF business_terms # <<>> THEN <<FALSE, TRUE>>
    ELSE IF Len(action_items) > 2 THEN <<FALSE, TRUE>>
    ELSE IF history > 3 THEN <<FALSE, TRUE>>
    ELSE IF IsSafePattern(text) THEN <<TRUE, FALSE>>
    ELSE IF Len(action_items) <= 1 /\ risk_score < 25 THEN <<TRUE, FALSE>>
    ELSE <<FALSE, TRUE>>

\* _determine_approval without its business-term rule
DetermineApproval_NoBusinessRule(text, risk_score, business_terms, action_items, history) ==
    IF risk_score >= 50 THEN <<FALSE, TRUE>>
    ELSE IF Len(action_items) > 2 THEN <<FALSE, TRUE>>
    ELSE IF history > 3 THEN <<FALSE, TRUE>>
    ELSE IF IsSafePattern(text) /\ risk_score < 25 THEN <<TRUE, FALSE>>
    ELSE IF Len(action_items) <= 1 /\ risk_score < 25 THEN <<TRUE, FALSE>>
    ELSE <<FALSE, TRUE>>

\* _determine_approval with a thread of three messages already sent to review
DetermineApproval_ShorterThread(text, risk_score, business_terms, action_items, history) ==
    IF risk_score >= 50 THEN <<FALSE, TRUE>>
    ELSE IF business_terms # <<>> THEN <<FALSE, TRUE>>
    ELSE IF Len(action_items) > 2 THEN <<FALSE, TRUE>>
    ELSE IF history > 2 THEN <<FALSE, TRUE>>
    ELSE IF IsSafePattern(text) /\ risk_score < 25 THEN <<TRUE, FALSE>>
    ELSE IF Len(action_items) <= 1 /\ risk_score < 25 THEN <<TRUE, FALSE>>
    ELSE <<FALSE, TRUE>>

\* _determine_approval: auto_approve; requires_human_review is returned as
\* the second component. history is len(conversation_history), 0 for None.
DetermineApproval(text, risk_score, business_terms, action_items, history) ==
    IF risk_score >= 50 THEN <<FALSE, TRUE>>
    ELSE IF business_terms # <<>> THEN <<FALSE, TRUE>>
    ELSE IF Len(action_items) > 2 THEN <<FALSE, TRUE>>
    ELSE IF history > 3 THEN <<FALSE, TRUE>>
    ELSE IF IsSafePattern(text) /\ risk_score < 25 THEN <<TRUE, FALSE>>
    ELSE IF Len(action_items) <= 1 /\ risk_score < 25 THEN <<TRUE, FALSE>>
    ELSE <<FALSE, TRUE>>

\* index of the first "<" of s, or Len(s)+1
FirstAngle(s) ==
    IF Contains("<", s)
    THEN CHOOSE i \in 1..Len(s) :
             /\ Char(s, i) = "<"
             /\ \A j \in 1..(i - 1) : Char(s, j) # "<"
    ELSE Len(s) + 1

\* sender.split('<')[0].strip().capitalize() or "there"
SenderName(sender) ==
    LET name == Capitalize(Strip(SubSeq(sender, 1, FirstAngle(sender) - 1)))
    IN  IF name = "" THEN "there" ELSE name

CATEGORY_REPLIES ==
    [finance |-> "Thank you for your email regarding financial matters. I've received your message and will review the details shortly. I'll get back to you as soon as possible.",
     legal   |-> "I've received your message regarding legal matters. This requires careful review, and I'll get back to you shortly after I've had a chance to assess the details.",
     hr      |-> "Thank you for reaching out regarding HR matters. I've received your message and will review it promptly. I'll be in touch soon with any follow-up.",
     project |-> "Thank you for the update regarding the project. I've received your message and will review the details. I'll follow up with you shortly if any action is needed on my part.",
     meeting |-> "Thank you for reaching out. I'd be happy to schedule a meeting. Could you please share a few time slots that work well for you? I'll do my best to accommodate.",
     support |-> "Thank you for reaching out for support. I've received your message and understand you need assistance with this matter. I'll look into it and get back to you shortly."]

ReplyText(sender_name, sentence) ==
    "Hi " \o sender_name \o ",\n\n" \o sentence \o "\n\nBest regards"

\* the value None
None == "None"

\* _generate_reply
GenerateReply(sender, subject, category, action_items, needs_reply) ==
    IF ~needs_reply THEN None
    ELSE IF IsSafePattern(Lower(subject) \o " " \o Lower(Join(" ", action_items)))
    THEN ReplyText(SenderName(sender),
             "Thank you for your message. I've received it and appreciate you reaching out.")
    ELSE IF category \in DOMAIN CATEGORY_REPLIES
    THEN ReplyText(SenderName(sender), CATEGORY_REPLIES[category])
    ELSE ReplyText(SenderName(sender),
             "Thank you for your email. I've received your message and will review it shortly. I'll get back to you as soon as possible.")

\* _calculate_confidence, in tenths
CalculateConfidence(priority_score, risk_score, category_conf) ==
    IF priority_score >= 4 \/ risk_score >= 50 THEN Min(10, category_conf + 3)
    ELSE IF category_conf > 7 THEN 8
    ELSE 6

\* the parts of reason, joined by " | " in the code
Reason(priority_info, category_info, risk_info, action_items) ==
    (IF priority_info.matched_keywords # <<>>
     THEN <<<<"Priority", priority_info.label>>>> ELSE <<>>)
    \o (IF category_info.category # "general"
        THEN <<<<"Category", category_info.category>>>> ELSE <<>>)
    \o (IF risk_info.factors # <<>>
        THEN <<<<"risk factors", Len(risk_info.factors)>>>> ELSE <<>>)
    \o (IF action_items # <<>>
        THEN <<<<"action items", Len(action_items)>>>> ELSE <<>>)

\* the text analyze works on: subject and body, lowered and stripped
Combined(subject, body) == Strip(Lower(subject)) \o " " \o Strip(Lower(body))

\* KeywordAnalyzer.analyze, in a process whose string hash seed is seed
Analyze(sender, subject, body, history, seed) ==
    LET combined       == Combined(subject, body)
        priority_info  == CalculatePriority(combined)
        category_info  == DetectCategory(combined)
        risk_info      == AssessRisk(combined, seed)
        action_items   == ExtractActionItems(combined, seed)
        business_terms == ExtractBusinessTerms(combined, seed)
        needs_reply    == NeedsReply(combined, action_items)
        approval       == DetermineApproval(combined, risk_info.score,
                              business_terms, action_items, history)
    IN  [needs_reply    |-> needs_reply,
         reason         |-> Reason(priority_info, category_info, risk_info,
                                   action_items),
         priority       |-> priority_info.score,
         priority_label |-> priority_info.label,
         category       |-> category_info.category,
         suggested_reply |-> GenerateReply(sender, subject,
                                 category_info.category, action_items,
                                 needs_reply),
         risk_level     |-> risk_info.level,
         risk_score     |-> risk_info.score,
         auto_approve   |-> approval[1],
         requires_human_review |-> approval[2],
         risk_factors   |-> risk_info.factors,
         action_items   |-> action_items,
         business_terms |-> business_terms,
         confidence     |-> CalculateConfidence(priority_info.score,
                                risk_info.score, category_info.confidence)]

(***************************************************************************)
(* The classifier on its own: one process analyses one message several     *)
(* times, and may be restarted (a new process draws a new hash seed).      *)
(***************************************************************************)

\* the state folders of the vault
Folders == {"Needs_Action", "Plans", "Approved", "Rejected", "Done", "Inbox"}

\* bounds of the classifier runs
MaxSeed == 1
MaxHistory == 4
MaxCalls == 2

Seeds == 0..MaxSeed

Senders == {"Alice <alice@example.com>", "<bob@example.com>"}

Subjects == {"", "Hello", "Re: Thanks", "URGENT: Invoice"}

Bodies ==
    {"Thanks, got it!",
     "Can you send the invoice by Friday?",
     "FYI see the newsletter",
     "Thanks! Are you there?",
     "Thanks for the file",
     "Please go. Please do. Please be. Please try. Please sit. Please eat.",
     "Thanks, the deadline is near",
     "It is secret",
     "This is a lawsuit",
     "Thanks. Please go. Please do."}

\* len(conversation_history): none, the longest short thread, a long thread
Histories == {0, MaxHistory - 1, MaxHistory}

Inputs ==
    [sender : Senders, subject : Subjects, body : Bodies, history : Histories]

\* the worker threads before the first poll, on an empty vault
InitMail ==
    /\ mailbox = {} /\ now = 0
    /\ vault = [f \in Folders |-> <<>>]
    /\ processed_ids = {} /\ gmail_cache = {}
    /\ items = <<>> /\ pc = "poll"
    /\ exec_processed = {} /\ exec_file = {}
    /\ mover_processed = {} /\ mover_file = {}
    /\ sent = <<>> /\ executed = <<>> /\ stop_event = FALSE
    /\ faults = 0 /\ restarts = 0

InitChat ==
    /\ chat_space = {} /\ chat_processed = {} /\ chat_items = <<>>
    /\ chat_cache = {} /\ chats = <<>>

\* FailureManager.__init__: no watcher registered
InitHealth ==
    /\ watchers = <<>> /\ alerts = <<>> /\ streak_alerts = <<>>
    /\ restart_log = {}

\* no call of update_heartbeat or _check_all_watchers is under way
InitRace ==
    /\ hb = [pc |-> "idle", healthy |-> TRUE, tmp |-> 0, last |-> "none"]
    /\ mon = [pc |-> "idle", stale |-> FALSE, tmp |-> 0]

\* BaseWatcher.__init__: the thread has not run yet
InitBase ==
    /\ base_items = <<>> /\ base_pc = "poll"
    /\ base_cycle = 0 /\ base_calls = <<>>

InitClassify ==
    /\ input \in Inputs
    /\ hashseed \in Seeds
    /\ results = <<>>
    /\ InitMail /\ InitChat /\ InitHealth /\ InitBase /\ InitRace

\* analyzer.analyze(sender, subject, body, history) in the running process
Classify ==
    /\ Len(results) < MaxCalls
    /\ results' = Append(results,
                     [seed |-> hashseed,
                      out  |-> Analyze(input.sender, input.subject,
                                       input.body, input.history, hashseed)])
    /\ UNCHANGED <<mailVars, chatVars, healthVars, baseVars, raceVars, hashseed,
                   input>>

\* the process ends and a new one starts: Python draws a new string hash seed
RestartProcess ==
    /\ hashseed' \in Seeds
    /\ UNCHANGED <<mailVars, chatVars, healthVars, classifyVars, baseVars, raceVars>>

NextClassify == Classify \/ RestartProcess

SpecClassify == InitClassify /\ [][NextClassify]_vars

(***************************************************************************)
(* Properties of the classifier.                                           *)
(***************************************************************************)

\* what the tables of the analyzer say of every message of Inputs: its
\* normalized text, whether it holds a business-critical term, a safe
\* pattern or an urgency marker, the highest weight of its priority
\* keywords and the sum of its risk weights
InputFacts ==
    [subject \in Subjects, body \in Bodies |->
        LET text == Combined(subject, body)
        IN  [text     |-> text,
             business |-> \E term \in BUSINESS_CRITICAL : Contains(term, text),
             safe     |-> \E k \in 1..Len(SAFE_PATTERNS) :
                             Contains(SAFE_PATTERNS[k], text),
             urgency  |-> HasUrgencyBooster(text),
             highest  |-> MaxWeight(Matched(PRIORITY_KEYWORDS, text)),
             risk_sum |-> SumWeights(Matched(RISK_KEYWORDS, text))
                          + 15 * Cardinality({term \in BUSINESS_CRITICAL :
                                                 Contains(term, text)})]] @@ <<>>

\* the text of the message under analysis
InputText == InputFacts[input.subject, input.body].text

InputHasBusinessTerm == InputFacts[input.subject, input.body].business

InputIsSafePattern == InputFacts[input.subject, input.body].safe

\* C8: any two calls of analyze on the same (sender, subject, body, history)
\* return outputs equal in every field, the kept action items and the order
\* of risk_factors and action_items included.
C8_ClassifyDeterministic ==
    \A i, j \in 1..Len(results) : results[i].out = results[j].out

\* two calls on the same input, in two processes, with different action items
C8_Witness ==
    \E i, j \in 1..Len(results) :
        /\ results[i].seed # results[j].seed
        /\ Range(results[i].out.action_items) # Range(results[j].out.action_items)

\* C9: when the combined subject and body contain a business-critical term,
\* analyze returns auto_approve = FALSE, whatever the other signals.
C9_BusinessTermNotAutoApproved ==
    (results # <<>> /\ InputHasBusinessTerm)
    => \A i \in 1..Len(results) : ~results[i].out.auto_approve

\* a message with a business-critical term that every other rule would
\* have let through: a safe pattern, low risk, no action item, no thread
C9_Witness ==
    /\ results # <<>>
    /\ InputHasBusinessTerm
    /\ InputIsSafePattern
    /\ results[1].out.risk_score < 25
    /\ results[1].out.action_items = <<>>
    /\ input.history = 0
    /\ ~results[1].out.auto_approve

\* C10, as stated: a safe acknowledgment pattern with risk_score < 25 and at
\* most one action item gives auto_approve = TRUE.
C10_SafePatternAutoApproved ==
    \A i \in 1..Len(results) :
        (/\ results[i].out.risk_score < 25
         /\ Len(results[i].out.action_items) <= 1
         /\ InputIsSafePattern)
        => results[i].out.auto_approve

\* C10, amended: a safe acknowledgment pattern with risk_score < 25 and at
\* most one action item gives auto_approve = TRUE when the text holds no
\* business-critical term and the thread has at most three earlier messages.
C10_SafePatternAutoApprovedAmended ==
    \A i \in 1..Len(results) :
        (/\ results[i].out.risk_score < 25
         /\ Len(results[i].out.action_items) <= 1
         /\ input.history <= 3
         /\ InputIsSafePattern
         /\ ~InputHasBusinessTerm)
        => results[i].out.auto_approve

\* a safe acknowledgment on a thread of three messages, auto-approved
C10_Witness ==
    /\ results # <<>>
    /\ InputIsSafePattern
    /\ results[1].out.risk_score < 25
    /\ Len(results[1].out.action_items) <= 1
    /\ ~InputHasBusinessTerm
    /\ input.history = 3
    /\ results[1].out.auto_approve

\* the message of the acknowledgment alone: no subject, the body
\* 'Thanks, got it!', a thread of at most three earlier messages
InputIsAcknowledgmentOnly ==
    /\ input.subject = "" /\ input.body = "Thanks, got it!"
    /\ input.history <= 3

\* C24, as stated: the message whose only content is the acknowledgment
\* 'Thanks, got it!' is classified needs_reply = TRUE, risk_score < 25 and
\* auto_approve = TRUE.
C24_AcknowledgmentNeedsReply ==
    InputIsAcknowledgmentOnly
    => \A i \in 1..Len(results) :
           /\ results[i].out.needs_reply
           /\ results[i].out.risk_score < 25
           /\ results[i].out.auto_approve

\* C24, amended: that message is classified needs_reply = FALSE, with no
\* suggested reply, risk_score < 25 and auto_approve = TRUE.
C24_AcknowledgmentNoReply ==
    InputIsAcknowledgmentOnly
    => \A i \in 1..Len(results) :
           /\ ~results[i].out.needs_reply
           /\ results[i].out.suggested_reply = None
           /\ results[i].out.risk_score < 25
           /\ results[i].out.auto_approve

\* the acknowledgment alone was analysed: no reply needed, auto-approved
C24_Witness ==
    /\ results # <<>>
    /\ InputIsAcknowledgmentOnly
    /\ InputIsSafePattern
    /\ ~Contains("?", InputText)
    /\ ~results[1].out.needs_reply
    /\ results[1].out.auto_approve

\* C36: risk_score is the sum of the weights of the matched risk keywords
\* plus 15 for every matched business-critical term, cut at 100, and
\* risk_level is critical, high, medium, low or safe as that sum is at
\* least 75, 50, 25, 10 or below 10.
C36_RiskScoreAndLevel ==
    \A i \in 1..Len(results) :
        LET sum == InputFacts[input.subject, input.body].risk_sum
            out == results[i].out
        IN  /\ out.risk_score = Min(100, sum)
            /\ out.risk_score \in 0..100
            /\ out.risk_level = "critical" <=> sum >= 75
            /\ out.risk_level = "high" <=> (sum >= 50 /\ sum < 75)
            /\ out.risk_level = "medium" <=> (sum >= 25 /\ sum < 50)
            /\ out.risk_level = "low" <=> (sum >= 10 /\ sum < 25)
            /\ out.risk_level = "safe" <=> sum < 10

\* a message whose weights add up to more than 100: score 100, critical
C36_Witness ==
    /\ results # <<>>
    /\ InputFacts[input.subject, input.body].risk_sum > 100
    /\ results[1].out.risk_score = 100
    /\ results[1].out.risk_level = "critical"

\* C37: when analyze returns auto_approve = TRUE, the risk score is below
\* 25, the text holds no business-critical term, there are at most two
\* action items and the thread has at most three earlier messages; and
\* requires_human_review is the negation of auto_approve for every input.
C37_AutoApproveImplies ==
    \A i \in 1..Len(results) :
        LET out == results[i].out
        IN  /\ out.requires_human_review = ~out.auto_approve
            /\ out.auto_approve =>
                   /\ out.risk_score < 25
                   /\ ~InputHasBusinessTerm
                   /\ out.business_terms = <<>>
                   /\ Len(out.action_items) <= 2
                   /\ input.history <= 3

\* an auto-approved message with two action items, on a thread of three
\* messages
C37_Witness ==
    /\ results # <<>>
    /\ results[1].out.auto_approve
    /\ ~results[1].out.requires_human_review
    /\ Len(results[1].out.action_items) = 2
    /\ input.history = 3

\* C35: the priority of analyze is max(1, highest weight of the matched
\* priority keywords), plus 1 up to 5 when the text holds '!', 'urgent',
\* 'asap' or 'immediately'; it is always in 1..5.
C35_PriorityFloorThenBoost ==
    \A i \in 1..Len(results) :
        LET facts   == InputFacts[input.subject, input.body]
            floor   == Max(1, facts.highest)
            stated  == IF facts.urgency THEN Min(5, floor + 1) ELSE floor
        IN  /\ results[i].out.priority = stated
            /\ results[i].out.priority \in 1..5

\* C35, amended: the urgency marker adds 1, up to 5, to the highest weight
\* of the matched priority keywords (0 when none matches), and the floor of
\* 1 is applied to the result; the priority is always in 1..5.
C35_PriorityBoostThenFloor ==
    \A i \in 1..Len(results) :
        LET facts   == InputFacts[input.subject, input.body]
            boosted == IF facts.urgency THEN Min(5, facts.highest + 1)
                       ELSE facts.highest
        IN  /\ results[i].out.priority = Max(1, boosted)
            /\ results[i].out.priority \in 1..5

\* a message with '!' and no priority keyword: analyze gives priority 1
C35_Witness ==
    /\ results # <<>>
    /\ InputFacts[input.subject, input.body].highest = 0
    /\ Contains("!", InputText)
    /\ results[1].out.priority = 1
    /\ results[1].out.priority_label = "low"

(***************************************************************************)
(* The vault and the files of the workflow (gmail_watcher.py,              *)
(* approved_plan_executor.py, email_to_inbox.py).                          *)
(***************************************************************************)

\* bounds of the workflow runs
MaxTime == 1
\* failures and restarts the environment injects in one run
MaxFaults == 1

\* the messages the mail provider can list; two ids share their first eight
\* characters, and the subjects are equal
Mail ==
    { [id |-> "18c5f2a3b1", from |-> "Alice <alice@example.com>",
       subject |-> "Hello", body |-> "FYI see the newsletter"],
      [id |-> "18c5f2a3c2", from |-> "Bob <bob@example.com>",
       subject |-> "Hello", body |-> "Thanks! Are you there?"],
      [id |-> "18c5f3d4e5", from |-> "Carol <carol@example.com>",
       subject |-> "Hello", body |-> "Can you send the invoice by Friday?"] }

MailIds == {m.id : m \in Mail}

MailOf(id) == CHOOSE m \in Mail : m.id = id

\* self._analyzer.analyze(from, subject, body) of each message, tabulated
AnalysisOfMail ==
    [id \in MailIds, seed \in Seeds |->
        Analyze(MailOf(id).from, MailOf(id).subject, MailOf(id).body, 0, seed)]
    @@ <<>>

\* the characters i..j of s, those outside allowed dropped
RECURSIVE KeepIn(_, _, _, _)
KeepIn(s, i, j, allowed) ==
    IF i > j THEN ""
    ELSE IF i = j THEN (IF Char(s, i) \in allowed THEN Char(s, i) ELSE "")
    ELSE KeepIn(s, i, (i + j) \div 2, allowed)
         \o KeepIn(s, (i + j) \div 2 + 1, j, allowed)

\* the characters i..j of s, those in chars replaced by the character by
RECURSIVE ReplaceIn(_, _, _, _, _)
ReplaceIn(s, i, j, chars, by) ==
    IF i > j THEN ""
    ELSE IF i = j THEN (IF Char(s, i) \in chars THEN by ELSE Char(s, i))
    ELSE ReplaceIn(s, i, (i + j) \div 2, chars, by)
         \o ReplaceIn(s, (i + j) \div 2 + 1, j, chars, by)

\* re.sub of each run of characters of chars by the one character by
RECURSIVE SqueezeIn(_, _, _, _, _)
SqueezeIn(s, i, j, chars, by) ==
    IF i > j THEN ""
    ELSE IF i = j
    THEN (IF Char(s, i) \notin chars THEN Char(s, i)
          ELSE IF i > 1 /\ Char(s, i - 1) \in chars THEN "" ELSE by)
    ELSE SqueezeIn(s, i, (i + j) \div 2, chars, by)
         \o SqueezeIn(s, (i + j) \div 2 + 1, j, chars, by)

SpaceChars == {" ", "\n", "\t"}

\* GmailWatcher._generate_filename
GenerateFilename(subject, msg_id) ==
    LET d1 == Strip(subject)
        d2 == KeepIn(d1, 1, Len(d1), WordChars \cup SpaceChars \cup {"-"})
        d3 == SqueezeIn(d2, 1, Len(d2), SpaceChars, " ")
        d4 == IF Len(d3) > 27 THEN Strip(SubSeq(d3, 1, 27)) ELSE d3
        d5 == ReplaceIn(d4, 1, Len(d4), {" "}, "-")
        d6 == SqueezeIn(d5, 1, Len(d5), {"-"}, "-")
    IN  "EMAIL - " \o StripChar(d6, "-") \o "_" \o Take(msg_id, 8) \o ".md"

\* datetime.now().strftime('%Y%m%d_%H%M%S'), t seconds into the run
TimeStamp(t) == "20260114_09000" \o SubSeq("0123456789", t + 1, t + 1)

\* the plan_id of _create_plan_direct
PlanId(t, subject) ==
    LET s1 == ReplaceIn(subject, 1, Len(subject),
                        {"/", "\\", ":", "*", "?", "\"", "<", ">", "|"}, "-")
        s2 == SqueezeIn(s1, 1, Len(s1), {"-"}, "-")
    IN  "PLAN_" \o TimeStamp(t) \o "_" \o StripChar(Take(s2, 50), "-")

\* subject = f"Re: {subject}" unless it starts with Re:
ReplySubject(subject) ==
    IF subject # "" /\ ~StartsAt("Re:", subject, 1)
    THEN "Re: " \o subject ELSE subject

\* path.exists()
Exists(v, folder, name) == name \in DOMAIN v[folder]

\* path.write_text(content)
WriteText(v, folder, name, content) ==
    [v EXCEPT ![folder] = [n \in DOMAIN v[folder] \cup {name} |->
                              IF n = name THEN content ELSE v[folder][n]]]

\* path.unlink()
Unlink(v, folder, name) ==
    [v EXCEPT ![folder] = [n \in DOMAIN v[folder] \ {name} |-> v[folder][n]]]

\* the file _save_to_needs_action writes
EmailContent(msg) ==
    [type |-> "email", message_id |-> msg.id, from |-> msg.from,
     subject |-> msg.subject, body |-> msg.body, status |-> <<"pending">>,
     plan_id |-> None, notes |-> <<>>]

\* the file _create_plan_direct writes
PlanContent(plan_id, msg, analysis) ==
    [type |-> "email_plan", plan_id |-> plan_id,
     email_file |-> GenerateFilename(msg.subject, msg.id),
     needs_reply |-> analysis.needs_reply,
     auto_approve |-> analysis.auto_approve,
     from |-> msg.from, subject |-> msg.subject,
     reply |-> IF analysis.suggested_reply = None
               THEN "No reply suggested" ELSE analysis.suggested_reply,
     message_id |-> msg.id, status |-> <<>>, sent_to |-> None]

\* frontmatter += status and the recipient, as the three movers of a plan
\* or an email do
Stamped(content, status, recipient, plan_id) ==
    IF content.type = "email_plan"
    THEN [content EXCEPT !.status = Append(@, status), !.sent_to = recipient]
    ELSE [content EXCEPT !.status = Append(@, status), !.plan_id = plan_id]

\* VaultUpdater.add_note on a file of Needs_Action: nothing when it is absent
AddNote(v, name, note) ==
    IF ~Exists(v, "Needs_Action", name) THEN v
    ELSE [v EXCEPT !["Needs_Action"][name].notes = Append(@, note)]

\* plan_file.stem
Stem(name) == SubSeq(name, 1, Len(name) - 3)

\* the list the provider returns for 'is:unread is:important', newest first
ListOrder == <<"18c5f3d4e5", "18c5f2a3c2", "18c5f2a3b1">>

ListMessages(box) == SelectSeq(ListOrder, LAMBDA id : id \in box)

\* the step of a handler that raises; "send" makes send_email return False
Faults ==
    {"none", "list", "fetch", "save_email", "write_plan", "send", "write_done",
     "unlink_plan", "inbox_write", "email_unlink", "save_cache",
     "save_executed"}

\* the move of an email from Needs_Action to Inbox that check_plan_completion,
\* check_and_move and _move_email_to_inbox share: nothing when the email is
\* not in Needs_Action, write to Inbox, then unlink
MoveEmailToInbox(v, email_file, plan_id, status, fault) ==
    IF ~Exists(v, "Needs_Action", email_file) \/ fault = "inbox_write" THEN v
    ELSE LET written == WriteText(v, "Inbox", email_file,
                 Stamped(v["Needs_Action"][email_file], status, None, plan_id))
         IN  IF fault = "email_unlink" THEN written
             ELSE Unlink(written, "Needs_Action", email_file)

\* whether that move ran to its end
EmailMoved(v, email_file, fault) ==
    /\ Exists(v, "Needs_Action", email_file)
    /\ fault \notin {"inbox_write", "email_unlink"}

\* the record send_email is called with
SendCall(id, via, plan_file, recipient, subject, t, ok) ==
    [message_id |-> id, via |-> via, plan |-> plan_file, to |-> recipient,
     subject |-> ReplySubject(subject), at |-> t, ok |-> ok]

Branch_IgnoresAutoApprove(analysis) ==
    IF ~analysis.needs_reply THEN "no_reply" ELSE "auto"

\* the branch create_action_file takes on the analysis
Branch(analysis) ==
    IF ~analysis.needs_reply THEN "no_reply"
    ELSE IF analysis.auto_approve THEN "auto"
    ELSE "plan"

\* self._processed_ids.add(id); self._save_cache()
Recorded(st, id, fault) ==
    [st EXCEPT !.processed_ids = @ \cup {id},
               !.gmail_cache = IF fault = "save_cache" THEN @
                               ELSE st.processed_ids \cup {id}]

\* GmailWatcher._save_to_needs_action: an error is logged and swallowed
SaveToNeedsAction(st, msg, fault) ==
    IF fault = "save_email" THEN st
    ELSE [st EXCEPT !.vault = WriteText(@, "Needs_Action",
                        GenerateFilename(msg.subject, msg.id),
                        EmailContent(msg))]

\* GmailWatcher._create_plan_direct
CreatePlanDirect(st, plan_id, msg, analysis) ==
    [st EXCEPT !.vault = WriteText(@, "Plans", plan_id \o ".md",
                             PlanContent(plan_id, msg, analysis))]

\* self._vault_updater.add_note on the email, then the id is recorded
NotedAndRecorded(st, msg, note, fault) ==
    Recorded([st EXCEPT !.vault =
                 AddNote(@, GenerateFilename(msg.subject, msg.id), note)],
             msg.id, fault)

\* the successful automatic send: the plan goes from Plans to Done, then
\* check_plan_completion moves the email; an error of the first two steps
\* leaves create_action_file through its outer except
MoveSentPlan(st, msg, plan_id, fault) ==
    IF fault = "write_done" THEN st
    ELSE IF fault = "unlink_plan"
    THEN [st EXCEPT !.vault = WriteText(@, "Done", plan_id \o ".md",
              Stamped(st.vault["Plans"][plan_id \o ".md"], "auto_sent",
                      msg.from, None))]
    ELSE NotedAndRecorded(
             [st EXCEPT !.vault = MoveEmailToInbox(
                 Unlink(WriteText(@, "Done", plan_id \o ".md",
                            Stamped(st.vault["Plans"][plan_id \o ".md"],
                                    "auto_sent", msg.from, None)),
                        "Plans", plan_id \o ".md"),
                 GenerateFilename(msg.subject, msg.id), plan_id,
                 "completed", fault)],
             msg, <<"Auto-sent", plan_id, "Done">>, fault)

\* the auto_approve branch once the plan is written
AutoReply(st, msg, analysis, plan_id, t, fault) ==
    IF analysis.suggested_reply = None
    THEN NotedAndRecorded(st, msg, <<"Auto-sent", plan_id, "Plans">>, fault)
    ELSE IF fault = "send"
    THEN NotedAndRecorded(
             [st EXCEPT !.sent = Append(@, SendCall(msg.id, "auto",
                  plan_id \o ".md", msg.from, msg.subject, t, FALSE))],
             msg, <<"Auto-sent", plan_id, "Plans">>, fault)
    ELSE MoveSentPlan(
             [st EXCEPT !.sent = Append(@, SendCall(msg.id, "auto",
                  plan_id \o ".md", msg.from, msg.subject, t, TRUE))],
             msg, plan_id, fault)

\* create_action_file after the email is saved and analysed
HandleAnalysed(st, msg, analysis, plan_id, t, fault) ==
    IF Branch(analysis) = "no_reply" THEN Recorded(st, msg.id, fault)
    ELSE IF fault = "write_plan" THEN st
    ELSE IF Branch(analysis) = "plan"
    THEN NotedAndRecorded(CreatePlanDirect(st, plan_id, msg, analysis), msg,
                          <<"Plan created", plan_id, "Plans">>, fault)
    ELSE AutoReply(CreatePlanDirect(st, plan_id, msg, analysis), msg,
                   analysis, plan_id, t, fault)

\* GmailWatcher.create_action_file on message id at time t, as a function of
\* the watcher's state st = [vault, processed_ids, gmail_cache, sent]
CreateActionFileOn(st, id, t, seed, fault) ==
    IF fault = "fetch" THEN st
    ELSE HandleAnalysed(SaveToNeedsAction(st, MailOf(id), fault), MailOf(id),
                        AnalysisOfMail[id, seed],
                        PlanId(t, MailOf(id).subject), t, fault)

\* one more injected failure fits the budget
FaultAllowed(fault, allowed) ==
    /\ fault \in allowed
    /\ fault # "none" => faults + restarts < MaxFaults

Injected(fault) == IF fault = "none" THEN faults ELSE faults + 1

\* the PLAN_*.md files of a folder, as the glob lists them
PlanFiles(v, folder) == SetToSeq(DOMAIN v[folder])

MarkProcessed_OnSuccessOnly(processed, plan_id, success) ==
    IF success THEN processed \cup {plan_id} ELSE processed

\* self._processed_plans.add(plan_id) of check_and_execute: even if failed
MarkProcessed(processed, plan_id, success) == processed \cup {plan_id}

\* _move_plan_to_done removing the plan from Approved before the write to
\* Done
MovePlanToDone_UnlinkFirst(v, plan_file, recipient, fault) ==
    IF fault = "unlink_plan" THEN v
    ELSE LET removed == Unlink(v, "Approved", plan_file)
         IN  IF fault = "write_done" THEN removed
             ELSE WriteText(removed, "Done", plan_file,
                      Stamped(v["Approved"][plan_file], "executed", recipient,
                              None))

\* ApprovedPlanExecutor._move_plan_to_done: write to Done, then unlink; an
\* error is logged and swallowed
MovePlanToDone(v, plan_file, recipient, fault) ==
    IF fault = "write_done" THEN v
    ELSE LET written == WriteText(v, "Done", plan_file,
                 Stamped(v["Approved"][plan_file], "executed", recipient, None))
         IN  IF fault = "unlink_plan" THEN written
             ELSE Unlink(written, "Approved", plan_file)

\* _execute_plan returns False before any send when email_file or the
\* recipient is missing, or when no suggested reply is found
WellFormed(content) ==
    /\ content.email_file # None /\ content.from # None
    /\ content.reply # None

\* ApprovedPlanExecutor._execute_plan and the bookkeeping of the loop around
\* it, on st = [vault, sent, processed, count, executed]
ExecutePlan(st, plan_file, t, fault) ==
    LET content == st.vault["Approved"][plan_file]
        success == WellFormed(content) /\ fault # "send"
        called == IF ~WellFormed(content) THEN st.sent
                  ELSE Append(st.sent,
                           SendCall(content.message_id, "approved", plan_file,
                                    content.from, content.subject, t, success))
        in_done == MovePlanToDone(st.vault, plan_file, content.from, fault)
    IN  [vault |-> IF success
                   THEN MoveEmailToInbox(in_done, content.email_file,
                                         Stem(plan_file), "executed", fault)
                   ELSE st.vault,
         sent |-> called,
         processed |-> MarkProcessed(st.processed, Stem(plan_file), success),
         count |-> IF success THEN st.count + 1 ELSE st.count,
         executed |-> Append(st.executed, plan_file)]

\* the loop of check_and_execute over the plans not yet processed; the
\* fault hits the plan target
RECURSIVE ExecutePlans(_, _, _, _, _)
ExecutePlans(st, todo, t, fault, target) ==
    IF todo = <<>> THEN st
    ELSE ExecutePlans(
             ExecutePlan(st, Head(todo), t,
                         IF Head(todo) = target THEN fault ELSE "none"),
             Tail(todo), t, fault, target)

\* one round of the loop of EmailToInboxMover.check_and_move, on
\* st = [vault, processed, count]
MoveForPlan(st, plan_file, fault) ==
    LET email_file == st.vault["Done"][plan_file].email_file
    IN  [vault |-> MoveEmailToInbox(st.vault, email_file, Stem(plan_file),
                                    "completed", fault),
         processed |-> st.processed \cup {Stem(plan_file)},
         count |-> IF EmailMoved(st.vault, email_file, fault)
                   THEN st.count + 1 ELSE st.count]

RECURSIVE MoveForPlans(_, _, _, _)
MoveForPlans(st, todo, fault, target) ==
    IF todo = <<>> THEN st
    ELSE MoveForPlans(
             MoveForPlan(st, Head(todo),
                         IF Head(todo) = target THEN fault ELSE "none"),
             Tail(todo), fault, target)

(***************************************************************************)
(* The steps of GmailWatcher.run, of the people who move plans, of the     *)
(* mail provider and of the process.                                       *)
(***************************************************************************)

\* a new unread important message is listed by the provider
Arrive(id) ==
    /\ id \notin mailbox
    /\ mailbox' = mailbox \cup {id}
    /\ UNCHANGED <<now, vault, processed_ids, gmail_cache, items, pc,
                   exec_processed, exec_file, mover_processed, mover_file,
                   sent, executed, stop_event, faults, restarts>>
    /\ UNCHANGED <<chatVars, healthVars, classifyVars, baseVars, raceVars, hashseed>>

\* the messages check_for_updates keeps: listed and not yet processed
NewMessages_All(box, processed) == ListMessages(box)

NewMessages(box, processed) ==
    SelectSeq(ListMessages(box), LAMBDA id : id \notin processed)

\* GmailWatcher.check_for_updates; every message is younger than the cutoff
CheckForUpdates(fault) ==
    /\ pc = "poll"
    /\ FaultAllowed(fault, {"none", "list", "save_cache"})
    /\ items' = IF fault = "list" THEN <<>>
                ELSE NewMessages(mailbox, processed_ids)
    /\ gmail_cache' = IF fault = "none" THEN processed_ids ELSE gmail_cache
    /\ pc' = IF items' = <<>> THEN "execute" ELSE "create"
    /\ faults' = Injected(fault)
    /\ UNCHANGED <<mailbox, now, vault, processed_ids, exec_processed,
                   exec_file, mover_processed, mover_file, sent, executed,
                   stop_event, restarts>>
    /\ UNCHANGED <<chatVars, healthVars, classifyVars, baseVars, raceVars, hashseed>>

\* GmailWatcher.create_action_file on the next message of the batch
CreateActionFile(fault) ==
    /\ pc = "create"
    /\ FaultAllowed(fault, Faults \ {"list", "save_executed"})
    /\ LET st == CreateActionFileOn(
                     [vault |-> vault, processed_ids |-> processed_ids,
                      gmail_cache |-> gmail_cache, sent |-> sent],
                     Head(items), now, hashseed, fault)
       IN  /\ vault' = st.vault
           /\ processed_ids' = st.processed_ids
           /\ gmail_cache' = st.gmail_cache
           /\ sent' = st.sent
    /\ items' = Tail(items)
    /\ pc' = IF items' = <<>> THEN "execute" ELSE "create"
    /\ faults' = Injected(fault)
    /\ UNCHANGED <<mailbox, now, exec_processed, exec_file, mover_processed,
                   mover_file, executed, stop_event, restarts>>
    /\ UNCHANGED <<chatVars, healthVars, classifyVars, baseVars, raceVars, hashseed>>

\* the failures that can hit one call of check_and_execute
ExecutorFaults ==
    {"none", "send", "write_done", "unlink_plan", "inbox_write",
     "email_unlink", "save_executed"}

\* if executed_count > 0: self._save_processed_plans(), whose write error is
\* logged and swallowed
SavedPlans(file, st, fault) ==
    IF st.count > 0 /\ fault # "save_executed" THEN st.processed ELSE file

\* the plans of Approved that check_and_execute has not processed yet
ApprovedTodo ==
    SelectSeq(PlanFiles(vault, "Approved"),
              LAMBDA f : Stem(f) \notin exec_processed)

\* ApprovedPlanExecutor.check_and_execute; the fault hits the plan target
CheckAndExecute(fault, target) ==
    /\ fault # "none" => target \in Range(ApprovedTodo)
    /\ fault = "none" => target = None
    /\ LET st == ExecutePlans(
                     [vault |-> vault, sent |-> sent,
                      processed |-> exec_processed, count |-> 0,
                      executed |-> executed],
                     ApprovedTodo, now, fault, target)
       IN  /\ vault' = st.vault
           /\ sent' = st.sent
           /\ executed' = st.executed
           /\ exec_processed' = st.processed
           /\ exec_file' = SavedPlans(exec_file, st, fault)
    /\ faults' = Injected(fault)
    /\ UNCHANGED <<mailbox, now, processed_ids, gmail_cache, items,
                   mover_processed, mover_file, stop_event, restarts>>
    /\ UNCHANGED <<chatVars, healthVars, classifyVars, baseVars, raceVars, hashseed>>

\* GmailWatcher.execute_approved_plans, the third step of the loop of run
ExecuteApprovedPlans(fault, target) ==
    /\ pc = "execute"
    /\ FaultAllowed(fault, ExecutorFaults)
    /\ CheckAndExecute(fault, target)
    /\ pc' = "move"

\* the plans of Done that check_and_move has not processed yet
DoneTodo ==
    SelectSeq(PlanFiles(vault, "Done"),
              LAMBDA f : Stem(f) \notin mover_processed)

\* GmailWatcher.check_completed_plans: EmailToInboxMover.check_and_move
CheckCompletedPlans(fault, target) ==
    /\ pc = "move"
    /\ FaultAllowed(fault, {"none", "inbox_write", "email_unlink"})
    /\ fault # "none" => target \in Range(DoneTodo)
    /\ fault = "none" => target = None
    /\ LET st == MoveForPlans(
                     [vault |-> vault, processed |-> mover_processed,
                      count |-> 0],
                     DoneTodo, fault, target)
       IN  /\ vault' = st.vault
           /\ mover_processed' = st.processed
           /\ mover_file' = IF st.count > 0 THEN st.processed ELSE mover_file
    /\ pc' = "sleep"
    /\ faults' = Injected(fault)
    /\ UNCHANGED <<mailbox, now, processed_ids, gmail_cache, items,
                   exec_processed, exec_file, sent, executed, stop_event,
                   restarts>>
    /\ UNCHANGED <<chatVars, healthVars, classifyVars, baseVars, raceVars, hashseed>>

\* time.sleep(self._check_interval)
Sleep ==
    /\ pc = "sleep"
    /\ now < MaxTime
    /\ now' = now + 1
    /\ pc' = "poll"
    /\ UNCHANGED <<mailbox, vault, processed_ids, gmail_cache, items,
                   exec_processed, exec_file, mover_processed, mover_file,
                   sent, executed, stop_event, faults, restarts>>
    /\ UNCHANGED <<chatVars, healthVars, classifyVars, baseVars, raceVars, hashseed>>

\* a person moves a plan from Plans to Approved or to Rejected
MovePlan(plan_file, folder) ==
    /\ Exists(vault, "Plans", plan_file)
    /\ vault' = Unlink(WriteText(vault, folder, plan_file,
                                 vault["Plans"][plan_file]),
                       "Plans", plan_file)
    /\ UNCHANGED <<mailbox, now, processed_ids, gmail_cache, items, pc,
                   exec_processed, exec_file, mover_processed, mover_file,
                   sent, executed, stop_event, faults, restarts>>
    /\ UNCHANGED <<chatVars, healthVars, classifyVars, baseVars, raceVars, hashseed>>

Approve(plan_file) == MovePlan(plan_file, "Approved")

Reject(plan_file) == MovePlan(plan_file, "Rejected")

\* the plan files ingestion can create
PlanNames == {PlanId(t, m.subject) \o ".md" : t \in 0..MaxTime, m \in Mail}

\* _load_cache then _initialize_processed_ids: with an empty cache, the
\* listed important messages are marked processed and the cache is saved
InitialProcessedIds(cache, box, fault) ==
    IF cache # {} \/ fault = "list" THEN cache ELSE box

\* the process of main.py ends and a new one constructs the GmailWatcher:
\* the three sets are loaded from their files
Restart(fault) ==
    /\ fault \in {"none", "list", "save_cache"}
    /\ Injected(fault) + restarts < MaxFaults
    /\ fault # "none" => gmail_cache = {} /\ mailbox # {}
    /\ processed_ids' = InitialProcessedIds(gmail_cache, mailbox, fault)
    /\ gmail_cache' = IF fault = "save_cache" THEN gmail_cache
                      ELSE processed_ids'
    /\ exec_processed' = exec_file
    /\ mover_processed' = mover_file
    /\ items' = <<>>
    /\ pc' = "poll"
    /\ hashseed' \in Seeds
    /\ restarts' = restarts + 1
    /\ faults' = Injected(fault)
    /\ stop_event' = FALSE
    /\ UNCHANGED <<mailbox, now, vault, exec_file, mover_file, sent, executed>>
    /\ UNCHANGED <<chatVars, healthVars, classifyVars, baseVars, raceVars>>

(***************************************************************************)
(* GoogleChatWatcher (Watchers/google_chat_watcher.py), one space.         *)
(***************************************************************************)

\* the messages the space can list, newest first
ChatMessages ==
    { [id |-> "msg-2", sender |-> "Dana Lee", message |-> "urgent: call me"],
      [id |-> "msg-1", sender |-> "Dana Lee", message |-> "Are you there?"] }

ChatIds == {m.id : m \in ChatMessages}

ChatOf(id) == CHOOSE m \in ChatMessages : m.id = id

ChatOrder == <<"msg-2", "msg-1">>

\* self._keyword_analyzer.analyze(sender, "Google Chat Message", message)
AnalysisOfChat ==
    [id \in ChatIds, seed \in Seeds |->
        Analyze(ChatOf(id).sender, "Google Chat Message", ChatOf(id).message,
                0, seed)]
    @@ <<>>

\* f"CHAT_{safe_sender}_{timestamp}.md"
ChatFilename(sender, t) ==
    "CHAT_" \o Take(ReplaceIn(sender, 1, Len(sender), {" ", "/"}, "_"), 50)
            \o "_" \o TimeStamp(t) \o ".md"

\* the file create_action_file writes for a chat message
ChatContent(msg, analysis) ==
    [type |-> "google_chat_message", from |-> msg.sender,
     message_id |-> msg.id, priority |-> analysis.priority_label,
     category |-> analysis.category, auto_approve |-> analysis.auto_approve]

\* the messages of the space check_for_updates returns
NewChatMessages(space, processed) ==
    SelectSeq(ChatOrder, LAMBDA id : id \in space /\ id \notin processed)

\* a message is posted in the space
ChatPost(id) ==
    /\ id \notin chat_space
    /\ chat_space' = chat_space \cup {id}
    /\ UNCHANGED <<chat_processed, chat_items, chat_cache, chats>>
    /\ UNCHANGED <<mailVars, healthVars, classifyVars, baseVars, raceVars, hashseed>>

\* GoogleChatWatcher.check_for_updates, called when the previous batch is
\* handled: the ids are marked processed as the batch is built
ChatCheckForUpdates(fault) ==
    /\ chat_items = <<>>
    /\ FaultAllowed(fault, {"none", "list", "save_cache"})
    /\ LET new == IF fault = "list" THEN <<>>
                  ELSE NewChatMessages(chat_space, chat_processed)
       IN  /\ new # <<>> \/ fault = "list"
           /\ chat_items' = new
           /\ chat_processed' = chat_processed \cup Range(new)
           /\ chat_cache' = IF new # <<>> /\ fault = "none"
                            THEN chat_processed' ELSE chat_cache
    /\ faults' = Injected(fault)
    /\ UNCHANGED <<chat_space, chats>>
    /\ UNCHANGED <<mailbox, now, vault, processed_ids, gmail_cache, items, pc,
                   exec_processed, exec_file, mover_processed, mover_file,
                   sent, executed, stop_event, restarts>>
    /\ UNCHANGED <<healthVars, classifyVars, baseVars, raceVars, hashseed>>

\* GoogleChatWatcher.create_action_file on the next message of the batch
ChatCreateActionFile(fault) ==
    /\ chat_items # <<>>
    /\ FaultAllowed(fault, {"none", "write_chat"})
    /\ LET msg == ChatOf(Head(chat_items))
           name == ChatFilename(msg.sender, now)
       IN  chats' = IF fault = "write_chat" THEN chats
                    ELSE [n \in DOMAIN chats \cup {name} |->
                            IF n = name
                            THEN ChatContent(msg, AnalysisOfChat[msg.id, hashseed])
                            ELSE chats[n]]
    /\ chat_items' = Tail(chat_items)
    /\ faults' = Injected(fault)
    /\ UNCHANGED <<chat_space, chat_processed, chat_cache>>
    /\ UNCHANGED <<mailbox, now, vault, processed_ids, gmail_cache, items, pc,
                   exec_processed, exec_file, mover_processed, mover_file,
                   sent, executed, stop_event, restarts>>
    /\ UNCHANGED <<healthVars, classifyVars, baseVars, raceVars, hashseed>>

\* time.sleep(self._check_interval) of GoogleChatWatcher.run
ChatSleep ==
    /\ chat_items = <<>>
    /\ now < MaxTime
    /\ now' = now + 1
    /\ UNCHANGED <<mailbox, vault, processed_ids, gmail_cache, items, pc,
                   exec_processed, exec_file, mover_processed, mover_file,
                   sent, executed, stop_event, faults, restarts>>
    /\ UNCHANGED <<chatVars, healthVars, classifyVars, baseVars, raceVars, hashseed>>

\* the process of the chat watcher ends and a new one loads the cache
ChatRestart ==
    /\ faults + restarts < MaxFaults
    /\ chat_processed' = chat_cache
    /\ chat_items' = <<>>
    /\ hashseed' \in Seeds
    /\ restarts' = restarts + 1
    /\ stop_event' = FALSE
    /\ UNCHANGED <<chat_space, chat_cache, chats>>
    /\ UNCHANGED <<mailbox, now, vault, processed_ids, gmail_cache, items, pc,
                   exec_processed, exec_file, mover_processed, mover_file,
                   sent, executed, faults>>
    /\ UNCHANGED <<healthVars, classifyVars, baseVars, raceVars>>

\* the chat worker runs in a process of its own
NextChat ==
    \/ \E id \in ChatIds : ChatPost(id)
    \/ \E fault \in {"none", "list", "save_cache"} : ChatCheckForUpdates(fault)
    \/ \E fault \in {"none", "write_chat"} : ChatCreateActionFile(fault)
    \/ ChatSleep
    \/ ChatRestart

(***************************************************************************)
(* The workflow of the mail worker and its environment; the first process  *)
(* runs with hash seed 0, a restarted one with any.                        *)
(***************************************************************************)

Init ==
    /\ InitMail /\ InitChat /\ InitHealth /\ InitBase /\ InitRace
    /\ hashseed = 0
    /\ input = [sender |-> "", subject |-> "", body |-> "", history |-> 0]
    /\ results = <<>>

Next ==
    \/ \E id \in MailIds : Arrive(id)
    \/ \E fault \in Faults : CheckForUpdates(fault)
    \/ \E fault \in Faults : CreateActionFile(fault)
    \/ \E fault \in Faults, target \in PlanNames \cup {None} :
           ExecuteApprovedPlans(fault, target)
    \/ \E fault \in Faults, target \in PlanNames \cup {None} :
           CheckCompletedPlans(fault, target)
    \/ Sleep
    \/ \E plan_file \in PlanNames : Approve(plan_file)
    \/ \E plan_file \in PlanNames : Reject(plan_file)
    \/ \E fault \in Faults : Restart(fault)

Spec == Init /\ [][Next]_vars

SpecChat == Init /\ [][NextChat]_vars

(***************************************************************************)
(* The two worker loops and BaseWatcher.stop, with no failure injected.    *)
(***************************************************************************)

\* BaseWatcher.stop: self._running = False; self._stop_event.set()
Stop ==
    /\ ~stop_event
    /\ stop_event' = TRUE
    /\ UNCHANGED <<mailbox, now, vault, processed_ids, gmail_cache, items, pc,
                   exec_processed, exec_file, mover_processed, mover_file,
                   sent, executed, faults, restarts>>
    /\ UNCHANGED <<chatVars, healthVars, classifyVars, baseVars, raceVars, hashseed>>

\* GmailWatcher.run and GoogleChatWatcher.run, which override BaseWatcher.run:
\* while True, with time.sleep between the polls
NextStop ==
    \/ Stop
    \/ \E id \in MailIds : Arrive(id)
    \/ CheckForUpdates("none")
    \/ CreateActionFile("none")
    \/ ExecuteApprovedPlans("none", None)
    \/ CheckCompletedPlans("none", None)
    \/ Sleep
    \/ \E id \in ChatIds : ChatPost(id)
    \/ ChatCheckForUpdates("none")
    \/ ChatCreateActionFile("none")
    \/ ChatSleep

SpecStop == Init /\ [][NextStop]_vars

(***************************************************************************)
(* BaseWatcher.run (Watchers/base_watcher.py), as a subclass that does not *)
(* override it runs it. check_for_updates and create_action_file are       *)
(* abstract: their results are chosen by the environment.                  *)
(***************************************************************************)

\* bounds of the runs of the base loop
MaxBatch == 2
MaxCycles == 2

\* the lists check_for_updates can return: items 1..n
Batches == {[i \in 1..n |-> i] : n \in 0..MaxBatch}

\* create_action_file returns a path, returns None (creation failed), or
\* raises an exception
Outcomes == {"path", "none", "raise"}

\* while self._running and not self._stop_event.is_set(): items =
\* self.check_for_updates(); an exception of it gives the empty batch
BaseCheckForUpdates(batch) ==
    /\ base_pc = "poll" /\ ~stop_event
    /\ base_items' = batch
    /\ base_pc' = IF batch = <<>> THEN "wait" ELSE "create"
    /\ UNCHANGED <<base_cycle, base_calls>>
    /\ UNCHANGED <<mailVars, chatVars, healthVars, classifyVars, raceVars,
                   hashseed>>

\* one round of 'for item in items' inside the try of run: break when
\* stopped; an exception of create_action_file leaves the for loop for the
\* except clause of run, which logs it
BaseCreateActionFile(outcome) ==
    /\ base_pc = "create"
    /\ IF stop_event
       THEN /\ outcome = "path"
            /\ base_items' = <<>>
            /\ UNCHANGED base_calls
       ELSE /\ base_calls' = Append(base_calls,
                                 [item |-> Head(base_items),
                                  cycle |-> base_cycle,
                                  left |-> Len(base_items) - 1,
                                  outcome |-> outcome])
            /\ base_items' = IF outcome = "raise" THEN <<>>
                             ELSE Tail(base_items)
    /\ base_pc' = IF base_items' = <<>> THEN "wait" ELSE "create"
    /\ UNCHANGED base_cycle
    /\ UNCHANGED <<mailVars, chatVars, healthVars, classifyVars, raceVars,
                   hashseed>>

\* self._stop_event.wait(timeout=self._check_interval)
BaseWait ==
    /\ base_pc = "wait"
    /\ base_cycle < MaxCycles
    /\ base_cycle' = base_cycle + 1
    /\ base_pc' = "poll"
    /\ UNCHANGED <<base_items, base_calls>>
    /\ UNCHANGED <<mailVars, chatVars, healthVars, classifyVars, raceVars,
                   hashseed>>

\* the condition of the while is false: run returns
BaseReturn ==
    /\ base_pc = "poll" /\ stop_event
    /\ base_pc' = "done"
    /\ UNCHANGED <<base_items, base_cycle, base_calls>>
    /\ UNCHANGED <<mailVars, chatVars, healthVars, classifyVars, raceVars,
                   hashseed>>

NextBase ==
    \/ Stop
    \/ \E batch \in Batches : BaseCheckForUpdates(batch)
    \/ \E outcome \in Outcomes : BaseCreateActionFile(outcome)
    \/ BaseWait
    \/ BaseReturn

SpecBase == Init /\ [][NextBase]_vars

(***************************************************************************)
(* ApprovedPlanExecutor on the plans a person puts into Approved, some of  *)
(* them with fields deleted.                                               *)
(***************************************************************************)

\* failures and restarts the environment injects in one run of the executor
MaxExecFaults == 2

\* the plan ingestion writes for the message that waits for an approval
ApprovedPlan(t) ==
    PlanContent(PlanId(t, "Hello"), MailOf("18c5f3d4e5"),
                AnalysisOfMail["18c5f3d4e5", 0])

\* the files a person can put into Approved: a complete plan, and plans
\* without email_file, without recipient and without suggested reply
ApprovedInputs ==
    (PlanId(0, "Hello") \o ".md" :> ApprovedPlan(0))
    @@ (PlanId(1, "Hello") \o ".md" :>
           [ApprovedPlan(1) EXCEPT !.email_file = None])
    @@ (PlanId(2, "Hello") \o ".md" :> [ApprovedPlan(2) EXCEPT !.from = None])
    @@ (PlanId(3, "Hello") \o ".md" :> [ApprovedPlan(3) EXCEPT !.reply = None])

\* a person puts a plan file into Approved, for the first time or again
PutInApproved(plan_file) ==
    /\ ~Exists(vault, "Approved", plan_file)
    /\ vault' = WriteText(vault, "Approved", plan_file,
                          ApprovedInputs[plan_file])
    /\ UNCHANGED <<mailbox, now, processed_ids, gmail_cache, items, pc,
                   exec_processed, exec_file, mover_processed, mover_file,
                   sent, executed, stop_event, faults, restarts>>
    /\ UNCHANGED <<chatVars, healthVars, classifyVars, baseVars, raceVars, hashseed>>

\* one call of check_and_execute
ExecutorPoll(fault, target) ==
    /\ fault \in ExecutorFaults
    /\ fault # "none" => faults + restarts < MaxExecFaults
    /\ CheckAndExecute(fault, target)
    /\ UNCHANGED pc

\* the process ends and a new ApprovedPlanExecutor loads its file
ExecutorRestart ==
    /\ faults + restarts < MaxExecFaults
    /\ exec_processed' = exec_file
    /\ restarts' = restarts + 1
    /\ UNCHANGED <<mailbox, now, vault, processed_ids, gmail_cache, items, pc,
                   exec_file, mover_processed, mover_file, sent, executed,
                   stop_event, faults>>
    /\ UNCHANGED <<chatVars, healthVars, classifyVars, baseVars, raceVars, hashseed>>

NextExecutor ==
    \/ \E plan_file \in DOMAIN ApprovedInputs : PutInApproved(plan_file)
    \/ \E fault \in ExecutorFaults, target \in DOMAIN ApprovedInputs \cup {None} :
           ExecutorPoll(fault, target)
    \/ ExecutorRestart

SpecExecutor == Init /\ [][NextExecutor]_vars

(***************************************************************************)
(* Properties of the workflow.                                             *)
(***************************************************************************)

\* the calls of send_email made for message id through channel via
CallsFor(id, via) ==
    {i \in DOMAIN sent : sent[i].message_id = id /\ sent[i].via = via}

\* the item files of message id in any state folder
ItemFolders(v, id) ==
    {f \in Folders : \E n \in DOMAIN v[f] :
        v[f][n].type = "email" /\ v[f][n].message_id = id}

\* C1: once an id is in the processed set, no later step of the mail worker
\* ingests it again: no file of that message is created or rewritten in
\* Needs_Action or Plans and no automatic reply is sent for it.
C1_ProcessedIdNotIngestedAgain ==
    [][\A id \in processed_ids :
          /\ \A i \in (Len(sent) + 1)..Len(sent') :
                 sent'[i].via = "auto" => sent'[i].message_id # id
          /\ \A f \in {"Needs_Action", "Plans"} : \A n \in DOMAIN vault'[f] :
                 vault'[f][n].message_id = id =>
                     n \in DOMAIN vault[f] /\ vault[f][n].message_id = id]_vars

\* an automatically answered message is in the processed set, the mover has
\* seen its plan in Done, and a later poll of the same process has listed
\* the message again: there is still exactly one call for it
C1_Witness ==
    \E id \in processed_ids \cap mailbox :
        /\ restarts = 0 /\ now > 0 /\ pc = "execute"
        /\ Cardinality(CallsFor(id, "auto")) = 1
        /\ \E i \in CallsFor(id, "auto") :
               sent[i].at < now /\ Stem(sent[i].plan) \in mover_processed

SameItem(a, b) ==
    /\ a.type = b.type
    /\ a.message_id = b.message_id
    /\ a.type = "email_plan" => a.plan_id = b.plan_id

\* C4: no item or plan is in two state folders at the same time.
C4_AtMostOneFolder ==
    \A f, g \in Folders : f # g =>
        \A n \in DOMAIN vault[f], k \in DOMAIN vault[g] :
            ~SameItem(vault[f][n], vault[g][k])

\* a plan whose reply was sent is in Done and still in the folder it was
\* to leave
C4_Witness ==
    \E f \in {"Plans", "Approved"} : \E n \in DOMAIN vault[f] :
        /\ Exists(vault, "Done", n)
        /\ SameItem(vault[f][n], vault["Done"][n])

\* C6: send_email succeeds at most once for the automatic reply of one
\* message.
C6_AutoReplyAtMostOnce ==
    \A id \in MailIds :
        Cardinality({i \in CallsFor(id, "auto") : sent[i].ok}) <= 1

\* two automatic replies of one message went out, in one process
C6_Witness ==
    \E id \in MailIds :
        /\ restarts = 0
        /\ Cardinality({i \in CallsFor(id, "auto") : sent[i].ok}) = 2

\* C7: an id the mail worker adds to its processed set while handling the
\* message has its item file in the vault.
C7_RecordedOnlyAfterFileWritten ==
    [][pc = "create" =>
          \A id \in processed_ids' \ processed_ids :
              ItemFolders(vault', id) # {}]_vars

\* the chat worker: an id added to its processed set has its file in Chats
C7_ChatRecordedOnlyAfterFileWritten ==
    [][\A id \in chat_processed' \ chat_processed :
          \E n \in DOMAIN chats' : chats'[n].message_id = id]_vars

\* an id is in the processed set of the mail worker and no file of the
\* message is in the vault
C7_Witness ==
    \E id \in processed_ids :
        /\ restarts = 0 /\ faults = 1
        /\ ItemFolders(vault, id) = {}
        /\ \A other \in processed_ids \ {id} : ItemFolders(vault, other) # {}

\* C19: once stop() was called on a worker, its loop starts no further
\* item: create_action_file is not called again (and run returns).
C19_NoItemAfterStop ==
    [][stop_event =>
          /\ ~CreateActionFile("none")
          /\ ~ChatCreateActionFile("none")]_vars

\* the folders a plan file can be in
PlanFolders == {"Plans", "Approved", "Rejected", "Done"}

\* C20: a plan file exists only for an item whose classification has
\* needs_reply = TRUE and auto_approve = FALSE; none is created for an item
\* that is auto-approved or needs no reply.
C20_PlanOnlyWhenNotAutoApproved ==
    \A folder \in PlanFolders :
        \A f \in DOMAIN vault[folder] :
            vault[folder][f].needs_reply /\ ~vault[folder][f].auto_approve

\* the plan of an auto-approved message, written to Plans and moved to Done
\* once the reply was sent
C20_Witness ==
    \E f \in DOMAIN vault["Done"] :
        /\ vault["Done"][f].auto_approve
        /\ vault["Done"][f].status = <<"auto_sent">>
        /\ \E k \in 1..Len(sent) : sent[k].plan = f /\ sent[k].via = "auto"

\* C13: after the send of an approved plan succeeded, send_email is never
\* called for that plan again, also when its file is still or again in
\* Approved: the plan is sent exactly once.
C13_SentPlanNotSentAgain ==
    \A i, j \in 1..Len(sent) :
        (i < j /\ sent[i].via = "approved" /\ sent[i].ok)
        => sent[j].plan # sent[i].plan

\* the complete plan, sent with success by two processes
C13_Witness ==
    /\ restarts = 1 /\ faults = 1
    /\ \E i, j \in 1..Len(sent) :
           /\ i < j /\ sent[i].ok /\ sent[j].ok
           /\ sent[i].plan = sent[j].plan

\* the plan files without a required field
Malformed == {f \in DOMAIN ApprovedInputs : ~WellFormed(ApprovedInputs[f])}

\* C14: a plan of Approved without email_file, recipient or suggested reply
\* is in the processed set once check_and_execute has met it, send_email is
\* never called for it, and _execute_plan is never called on it again.
C14_MalformedPlanHandledOnce ==
    /\ \A k \in 1..Len(executed) :
           (executed[k] \in Malformed /\ restarts = 0)
           => Stem(executed[k]) \in exec_processed
    /\ \A k \in 1..Len(sent) : sent[k].plan \notin Malformed
    /\ \A i, j \in 1..Len(executed) :
           (i < j /\ executed[i] \in Malformed) => executed[j] # executed[i]

\* a plan without a required field, met by the executor of two processes
\* with no failure injected
C14_Witness ==
    /\ restarts = 1 /\ faults = 0 /\ sent = <<>>
    /\ \E i, j \in 1..Len(executed) :
           i < j /\ executed[i] \in Malformed /\ executed[j] = executed[i]

\* C21: an id enters the processed set of the mail worker only in the step
\* of create_action_file that handles that message and has run the analyzer
\* on it; no id is recorded as processed without having been classified.
C21_NoIdRecordedUnclassified ==
    [][\A id \in processed_ids' \ processed_ids :
          /\ pc = "create" /\ items # <<>> /\ Head(items) = id
          /\ \E fault \in Faults \ {"list", "save_executed", "fetch"} :
                 CreateActionFile(fault)]_vars

\* a listed message is in the processed set of a process that started with
\* an empty cache, a poll has skipped it, and nothing of it is in the vault
C21_Witness ==
    \E id \in processed_ids \cap mailbox :
        /\ restarts = 1 /\ faults = 0 /\ pc = "execute"
        /\ ItemFolders(vault, id) = {}
        /\ \A f \in PlanFolders : \A n \in DOMAIN vault[f] :
               vault[f][n].message_id # id

\* C22: two messages with distinct ids never get the same item filename,
\* and no step replaces the stored file of one message by the file of
\* another message.
C22_NoItemFileOverwritten ==
    [][/\ \A a, b \in Mail :
             a.id # b.id => GenerateFilename(a.subject, a.id)
                                # GenerateFilename(b.subject, b.id)
       /\ \A f \in Folders : \A n \in DOMAIN vault[f] \cap DOMAIN vault'[f] :
              vault'[f][n].message_id = vault[f][n].message_id]_vars

\* with no failure and no restart, two messages are in the processed set,
\* the one file of their common name holds the later one, and no file of
\* the earlier one is left in the vault
C22_Witness ==
    \E a, b \in Mail :
        /\ a.id # b.id /\ {a.id, b.id} \subseteq processed_ids
        /\ restarts = 0 /\ faults = 0
        /\ GenerateFilename(a.subject, a.id) = GenerateFilename(b.subject, b.id)
        /\ ItemFolders(vault, a.id) = {}
        /\ ItemFolders(vault, b.id) # {}

\* C23: when create_action_file, with no failure, classifies a new message
\* as needing no reply, the item leaves Needs_Action, is in Done marked
\* archived, and its id is in the processed set.
C23_NoReplyItemArchived ==
    [][(/\ pc = "create" /\ items # <<>>
        /\ ~AnalysisOfMail[Head(items), hashseed].needs_reply
        /\ CreateActionFile("none"))
       => LET id == Head(items)
              name == GenerateFilename(MailOf(id).subject, id)
          IN  /\ id \in processed_ids'
              /\ ~Exists(vault', "Needs_Action", name)
              /\ Exists(vault', "Done", name)
              /\ vault'["Done"][name].message_id = id
              /\ "archived" \in Range(vault'["Done"][name].status)]_vars

\* a message that needs no reply was ingested with no failure: its id is in
\* the processed set and its file is in Needs_Action with the status
\* pending when the round of the loop has ended
C23_Witness ==
    \E id \in processed_ids :
        LET name == GenerateFilename(MailOf(id).subject, id)
        IN  /\ ~AnalysisOfMail[id, hashseed].needs_reply
            /\ restarts = 0 /\ faults = 0 /\ now > 0 /\ pc = "sleep"
            /\ Exists(vault, "Needs_Action", name)
            /\ vault["Needs_Action"][name].message_id = id
            /\ vault["Needs_Action"][name].status = <<"pending">>
            /\ ItemFolders(vault, id) = {"Needs_Action"}

\* C25: when create_action_file classifies a new message as needing a
\* reply that is not auto-approved, no send is attempted; the id is recorded
\* unless the step fails, and only with the plan file written; and then
\* exactly one plan of the message is in Plans and names the item file, and
\* the item is in Needs_Action with the note of that plan.
C25_ReviewItemGetsOnePlan ==
    [][\A fault \in Faults \ {"list", "save_executed", "fetch"} :
          (/\ pc = "create" /\ items # <<>>
           /\ Branch(AnalysisOfMail[Head(items), hashseed]) = "plan"
           /\ CreateActionFile(fault))
          => LET id == Head(items)
                 name == GenerateFilename(MailOf(id).subject, id)
                 plan_id == PlanId(now, MailOf(id).subject)
                 mine == {n \in DOMAIN vault'["Plans"] :
                             vault'["Plans"][n].message_id = id}
             IN  /\ sent' = sent
                 /\ fault = "none" => id \in processed_ids'
                 /\ id \in processed_ids' =>
                        /\ mine = {plan_id \o ".md"}
                        /\ vault'["Plans"][plan_id \o ".md"].email_file = name
                        /\ Exists(vault', "Needs_Action", name)
                        /\ vault'["Needs_Action"][name].message_id = id
                        /\ vault'["Needs_Action"][name].notes
                               = <<<<"Plan created", plan_id, "Plans">>>>]_vars

\* the message that needs review is in the processed set and its plan is in
\* Plans and names the item file, but no item file is in the vault
C25_Witness ==
    \E id \in processed_ids :
        LET name == GenerateFilename(MailOf(id).subject, id)
        IN  /\ Branch(AnalysisOfMail[id, hashseed]) = "plan"
            /\ restarts = 0 /\ sent = <<>>
            /\ \E n \in DOMAIN vault["Plans"] :
                   /\ vault["Plans"][n].message_id = id
                   /\ vault["Plans"][n].email_file = name
            /\ ItemFolders(vault, id) = {}
            /\ ~Exists(vault, "Needs_Action", name)

\* C26: when create_action_file reaches the send for an auto-approved
\* message, it calls send_email exactly once; after a successful send the
\* plan is in Done with the auto-sent stamp and not in Plans, after a failed
\* send the plan is in Plans; in both cases the id is in the processed set.
C26_AutoSendOnceAndRecorded ==
    [][\A fault \in Faults \ {"list", "save_executed", "fetch", "write_plan"} :
          (/\ pc = "create" /\ items # <<>>
           /\ Branch(AnalysisOfMail[Head(items), hashseed]) = "auto"
           /\ CreateActionFile(fault))
          => LET id == Head(items)
                 plan_file == PlanId(now, MailOf(id).subject) \o ".md"
             IN  /\ Len(sent') = Len(sent) + 1
                 /\ sent'[Len(sent')].message_id = id
                 /\ sent'[Len(sent')].ok =>
                        /\ Exists(vault', "Done", plan_file)
                        /\ "auto_sent" \in Range(vault'["Done"][plan_file].status)
                        /\ ~Exists(vault', "Plans", plan_file)
                 /\ ~sent'[Len(sent')].ok => Exists(vault', "Plans", plan_file)
                 /\ id \in processed_ids']_vars

\* the first automatic reply of a message went out but the plan could not be
\* written to Done: the id was not recorded, and the next poll of the same
\* process has sent the reply again
C26_Witness ==
    \E id \in processed_ids : \E i, j \in CallsFor(id, "auto") :
        /\ restarts = 0 /\ faults = 1
        /\ sent[i].ok /\ sent[j].ok /\ sent[i].at < sent[j].at
        /\ Exists(vault, "Plans", sent[i].plan)
        /\ ~Exists(vault, "Done", sent[i].plan)
        /\ Exists(vault, "Done", sent[j].plan)

\* C27: in a step of check_and_execute, a plan of Approved whose send
\* succeeds is in Done with the status executed and no longer in Approved,
\* and its item is moved to Inbox only with the plan so moved; a plan is
\* written to Done or its item moved to Inbox only when its send succeeded.
C27_PlanDoneBeforeItemMoved ==
    [][pc = "execute" =>
          \A plan_file \in DOMAIN vault["Approved"] :
              LET email_file == vault["Approved"][plan_file].email_file
                  send_ok == \E i \in (Len(sent) + 1)..Len(sent') :
                                 sent'[i].plan = plan_file /\ sent'[i].ok
                  in_done == /\ Exists(vault', "Done", plan_file)
                             /\ "executed" \in
                                    Range(vault'["Done"][plan_file].status)
                             /\ ~Exists(vault', "Approved", plan_file)
                  item_moved == /\ Exists(vault, "Needs_Action", email_file)
                                /\ Exists(vault', "Inbox", email_file)
                                /\ ~Exists(vault, "Inbox", email_file)
              IN  /\ send_ok => in_done
                  /\ item_moved => send_ok /\ in_done
                  /\ (Exists(vault', "Done", plan_file)
                      /\ ~Exists(vault, "Done", plan_file)) => send_ok]_vars

\* the reply of an approved plan went out and its item is in Inbox with the
\* status executed, but the plan is in Approved and not in Done
C27_Witness ==
    \E plan_file \in DOMAIN vault["Approved"] :
        LET email_file == vault["Approved"][plan_file].email_file
        IN  /\ \E i \in 1..Len(sent) :
                   sent[i].plan = plan_file /\ sent[i].via = "approved"
                   /\ sent[i].ok
            /\ ~Exists(vault, "Done", plan_file)
            /\ Exists(vault, "Inbox", email_file)
            /\ vault["Inbox"][email_file].status = <<"pending", "executed">>
            /\ ~Exists(vault, "Needs_Action", email_file)

(***************************************************************************)
(* FailureManager (Watchers/failure_manager.py), as main.py configures it. *)
(* _watchers is a dict: a sequence of WatcherHealth records in insertion   *)
(* order. Time is counted in whole health check intervals.                 *)
(***************************************************************************)

health_check_interval == 30
max_restart_attempts == 3
alert_threshold == 5
\* consecutive failures from which a watcher is FAILED
FailedAfter == 3
\* a heartbeat is stale when older than this many check intervals
StaleFactor == 3

\* bounds of the supervision runs
MaxFailures == 6
MaxAlerts == 2

\* the watchers main.py registers
Workers == {"GmailWatcher"}

\* the names a heartbeat can come with
WatcherNames == Workers \cup {"GoogleChatWatcher"}

\* WatcherHealth(name, last_heartbeat=now, max_restart_attempts=...)
NewWatcherHealth(name) ==
    [name |-> name, status |-> "healthy", heartbeat_age |-> 0,
     consecutive_failures |-> 0, restart_attempts |-> 0, is_running |-> TRUE]

Registered == {watchers[i].name : i \in 1..Len(watchers)}

IndexOf(name) == CHOOSE i \in 1..Len(watchers) : watchers[i].name = name

\* register_watcher(name): a fresh record, in the place of the old one if any
RegisterWatcher(name) ==
    /\ watchers' = IF name \in Registered
                   THEN [watchers EXCEPT ![IndexOf(name)] = NewWatcherHealth(name)]
                   ELSE Append(watchers, NewWatcherHealth(name))
    /\ streak_alerts' = [n \in Registered \cup {name} |->
                            IF n = name THEN 0 ELSE streak_alerts[n]]
    /\ UNCHANGED <<alerts, restart_log, mailVars, chatVars, classifyVars, baseVars, raceVars,
                   hashseed>>

FailureStatus_FailedAtOnce(status, failures) ==
    IF failures >= 1 THEN "failed" ELSE status

AlertNeeded_FromFailed(failures) == failures >= FailedAfter

\* the status update_heartbeat gives a failing watcher
FailureStatus(status, failures) ==
    IF failures >= FailedAfter THEN "failed"
    ELSE IF failures >= 1 THEN "degraded"
    ELSE status

\* whether update_heartbeat calls _create_alert
AlertNeeded(failures) == failures >= alert_threshold

\* the file _create_alert writes for a watcher
AlertOf(health, cause) == [watcher |-> health.name, cause |-> cause]

Recovered_ResetsAttempts(h) ==
    [h EXCEPT !.heartbeat_age = 0, !.status = "healthy",
              !.consecutive_failures = 0, !.is_running = TRUE,
              !.restart_attempts = 0]

\* the record update_heartbeat leaves for a healthy watcher
Recovered(h) ==
    [h EXCEPT !.heartbeat_age = 0, !.status = "healthy",
              !.consecutive_failures = 0, !.is_running = TRUE]

\* update_heartbeat(name, is_healthy); alert_ok: the alert file was written
UpdateHeartbeat(name, is_healthy, alert_ok) ==
    IF name \notin Registered
    THEN UNCHANGED vars
    ELSE LET i == IndexOf(name)
             h == watchers[i]
             failed == [h EXCEPT
                 !.heartbeat_age = 0,
                 !.consecutive_failures = @ + 1,
                 !.status = FailureStatus(h.status, h.consecutive_failures + 1)]
         IN  /\ UNCHANGED <<restart_log, mailVars, chatVars, classifyVars, baseVars, raceVars,
                            hashseed>>
             /\ IF is_healthy
                THEN /\ watchers' = [watchers EXCEPT ![i] = Recovered(h)]
                     /\ streak_alerts' = [streak_alerts EXCEPT ![name] = 0]
                     /\ alert_ok
                     /\ UNCHANGED alerts
                ELSE /\ h.consecutive_failures < MaxFailures
                     /\ watchers' = [watchers EXCEPT ![i] = failed]
                     /\ IF AlertNeeded(failed.consecutive_failures)
                        THEN IF alert_ok
                             THEN /\ Len(alerts) < MaxAlerts
                                  /\ alerts' = Append(alerts,
                                                  AlertOf(failed, "threshold"))
                                  /\ streak_alerts' =
                                       [streak_alerts EXCEPT ![name] = @ + 1]
                             ELSE UNCHANGED <<alerts, streak_alerts>>
                        ELSE alert_ok /\ UNCHANGED <<alerts, streak_alerts>>

\* the staleness test without the look at is_running
Stale_IgnoresRunning(h) ==
    h.heartbeat_age * health_check_interval > health_check_interval * StaleFactor

\* time_since_heartbeat > timeout_threshold and health.is_running
Stale(h) ==
    /\ h.heartbeat_age * health_check_interval
           > health_check_interval * StaleFactor
    /\ h.is_running

\* WatcherHealth.recovery_backoff_seconds
recovery_backoff_seconds == 30

Backoff_Linear(attempts) == recovery_backoff_seconds * attempts

\* backoff = health.recovery_backoff_seconds * (2 ** (restart_attempts - 1))
Backoff(attempts) == recovery_backoff_seconds * 2 ^ (attempts - 1)

\* the line 'Attempting restart n/max for name (backoff: ..s)' of the log
RestartLine(h) ==
    [watcher |-> h.name, attempt |-> h.restart_attempts,
     backoff |-> Backoff(h.restart_attempts)]

AttemptRestart_Unbounded(h) ==
    [health |-> [h EXCEPT !.restart_attempts = @ + 1,
                          !.status = "recovering"],
     alert |-> FALSE, restarted |-> TRUE]

\* _attempt_restart testing the limit with > where the code has >=
AttemptRestart_LimitOffByOne(h) ==
    IF h.restart_attempts > max_restart_attempts
    THEN [health |-> h, alert |-> TRUE, restarted |-> FALSE]
    ELSE [health |-> [h EXCEPT !.restart_attempts = @ + 1,
                               !.status = "recovering"],
          alert |-> FALSE, restarted |-> TRUE]

\* _attempt_restart that alerts at the limit and still goes to Recovering
AttemptRestart_AlertsAndRecovers(h) ==
    IF h.restart_attempts >= max_restart_attempts
    THEN [health |-> [h EXCEPT !.status = "recovering"],
          alert |-> TRUE, restarted |-> FALSE]
    ELSE [health |-> [h EXCEPT !.restart_attempts = @ + 1,
                               !.status = "recovering"],
          alert |-> FALSE, restarted |-> TRUE]

\* _attempt_restart: the record after it, whether it calls _create_alert and
\* whether it sanctions a restart
AttemptRestart(h) ==
    IF h.restart_attempts >= max_restart_attempts
    THEN [health |-> h, alert |-> TRUE, restarted |-> FALSE]
    ELSE [health |-> [h EXCEPT !.restart_attempts = @ + 1,
                               !.status = "recovering"],
          alert |-> FALSE, restarted |-> TRUE]

\* one iteration of the loop of _check_all_watchers
CheckWatcher(h) ==
    IF ~Stale(h) THEN [health |-> h, alert |-> FALSE, restarted |-> FALSE]
    ELSE LET dead == [h EXCEPT !.status = "failed", !.is_running = FALSE,
                               !.consecutive_failures = @ + 1]
         IN  IF dead.consecutive_failures < alert_threshold
             THEN AttemptRestart(dead)
             ELSE [health |-> dead, alert |-> FALSE, restarted |-> FALSE]

\* _check_all_watchers; alert_ok[name]: the alert file for name was written
CheckAllWatchers(alert_ok) ==
    LET checked == [i \in 1..Len(watchers) |-> CheckWatcher(watchers[i])]
        written == SelectSeq([i \in 1..Len(watchers) |->
                                 AlertOf(checked[i].health, "restart")],
                      LAMBDA a : /\ checked[IndexOf(a.watcher)].alert
                                 /\ alert_ok[a.watcher])
    IN  /\ watchers # <<>>
        /\ \A n \in Workers : alert_ok[n] \/
               (n \in Registered /\ checked[IndexOf(n)].alert)
        /\ Len(alerts) + Len(written) <= MaxAlerts
        /\ watchers' = [i \in 1..Len(watchers) |-> checked[i].health]
        /\ alerts' = alerts \o written
        /\ restart_log' = restart_log \cup
               {RestartLine(checked[i].health) :
                   i \in {j \in 1..Len(watchers) : checked[j].restarted}}
        /\ UNCHANGED <<streak_alerts, mailVars, chatVars, classifyVars, baseVars, raceVars, hashseed>>

\* a health check interval passes without a heartbeat
Tick ==
    /\ \E i \in 1..Len(watchers) : watchers[i].heartbeat_age <= StaleFactor
    /\ watchers' = [i \in 1..Len(watchers) |->
                       [watchers[i] EXCEPT !.heartbeat_age =
                            IF @ <= StaleFactor THEN @ + 1 ELSE @]]
    /\ UNCHANGED <<alerts, streak_alerts, restart_log, mailVars, chatVars,
                   classifyVars, baseVars, raceVars, hashseed>>

InitSupervision ==
    /\ InitHealth /\ InitMail /\ InitChat /\ InitBase /\ InitRace
    /\ hashseed = 0
    /\ input = [sender |-> "", subject |-> "", body |-> "", history |-> 0]
    /\ results = <<>>

NextHealth ==
    \/ \E name \in Workers : RegisterWatcher(name)
    \/ \E name \in WatcherNames, is_healthy, alert_ok \in BOOLEAN :
           UpdateHeartbeat(name, is_healthy, alert_ok)
    \/ \E alert_ok \in [Workers -> BOOLEAN] : CheckAllWatchers(alert_ok)
    \/ Tick

SpecHealth == InitSupervision /\ [][NextHealth]_vars

\* _monitor_loop: the check runs every health_check_interval, for ever
SpecHealthFair ==
    /\ SpecHealth
    /\ WF_vars(Tick)
    /\ WF_vars(\E alert_ok \in [Workers -> BOOLEAN] : CheckAllWatchers(alert_ok))

(***************************************************************************)
(* The FailureManager under its two threads. main.py calls                 *)
(* update_heartbeat from the orchestrator thread every second, and         *)
(* _monitor_loop calls _check_all_watchers from the monitor thread; the    *)
(* class takes no lock, so the reads and writes of the fields of one       *)
(* WatcherHealth record interleave. One step is one statement of the code. *)
(***************************************************************************)

\* the watcher the two threads meet on
RaceWorker == "GmailWatcher"

\* main.py registers the watcher before any thread is started
RaceRegister ==
    /\ watchers = <<>>
    /\ RegisterWatcher(RaceWorker)

\* one statement of update_heartbeat(RaceWorker, is_healthy)
HeartbeatStep(is_healthy) ==
    /\ watchers # <<>>
    /\ hb.pc # "idle" => is_healthy = hb.healthy
    /\ LET h == watchers[1]
       IN  CASE hb.pc = "idle" ->
                  \* health.last_heartbeat = datetime.now()
                  /\ watchers' = [watchers EXCEPT ![1].heartbeat_age = 0]
                  /\ hb' = [hb EXCEPT !.healthy = is_healthy,
                               !.pc = IF is_healthy THEN "status" ELSE "read"]
                  /\ UNCHANGED <<alerts, streak_alerts>>
             [] hb.pc = "status" ->
                  \* health.status = WatcherStatus.HEALTHY
                  /\ watchers' = [watchers EXCEPT ![1].status = "healthy"]
                  /\ hb' = [hb EXCEPT !.pc = "failures"]
                  /\ UNCHANGED <<alerts, streak_alerts>>
             [] hb.pc = "failures" ->
                  \* health.consecutive_failures = 0
                  /\ watchers' = [watchers EXCEPT ![1].consecutive_failures = 0]
                  /\ hb' = [hb EXCEPT !.pc = "running"]
                  /\ UNCHANGED <<alerts, streak_alerts>>
             [] hb.pc = "running" ->
                  \* health.is_running = True, and the call returns
                  /\ watchers' = [watchers EXCEPT ![1].is_running = TRUE]
                  /\ hb' = [hb EXCEPT !.pc = "idle", !.last = "healthy"]
                  /\ streak_alerts' = [streak_alerts EXCEPT ![RaceWorker] = 0]
                  /\ UNCHANGED alerts
             [] hb.pc = "read" ->
                  \* health.consecutive_failures += 1: the read
                  /\ h.consecutive_failures < MaxFailures
                  /\ hb' = [hb EXCEPT !.pc = "write",
                                      !.tmp = h.consecutive_failures]
                  /\ UNCHANGED <<watchers, alerts, streak_alerts>>
             [] hb.pc = "write" ->
                  \* health.consecutive_failures += 1: the write
                  /\ watchers' = [watchers EXCEPT
                                     ![1].consecutive_failures = hb.tmp + 1]
                  /\ hb' = [hb EXCEPT !.pc = "test", !.tmp = 0]
                  /\ UNCHANGED <<alerts, streak_alerts>>
             [] hb.pc = "test" ->
                  \* if consecutive_failures >= 3: FAILED, elif >= 1: DEGRADED
                  /\ watchers' = [watchers EXCEPT ![1].status =
                         FailureStatus(h.status, h.consecutive_failures)]
                  /\ hb' = [hb EXCEPT !.pc = "alert"]
                  /\ UNCHANGED <<alerts, streak_alerts>>
             [] hb.pc = "alert" ->
                  \* if consecutive_failures >= alert_threshold:
                  \* _create_alert; and the call returns
                  /\ hb' = [hb EXCEPT !.pc = "idle", !.last = "unhealthy"]
                  /\ IF AlertNeeded(h.consecutive_failures)
                     THEN /\ Len(alerts) < MaxAlerts
                          /\ alerts' = Append(alerts, AlertOf(h, "threshold"))
                          /\ streak_alerts' =
                                 [streak_alerts EXCEPT ![RaceWorker] = @ + 1]
                     ELSE UNCHANGED <<alerts, streak_alerts>>
                  /\ UNCHANGED watchers
    /\ UNCHANGED <<mon, restart_log, mailVars, chatVars, classifyVars,
                   baseVars, hashseed>>

\* one statement of the loop body of _check_all_watchers, up to the call
\* of _attempt_restart
CheckStep ==
    /\ watchers # <<>>
    /\ mon.pc \in {"idle", "running", "status", "stop", "read", "write",
                   "threshold"}
    /\ LET h == watchers[1]
       IN  CASE mon.pc = "idle" ->
                  \* time_since_heartbeat = now - health.last_heartbeat
                  /\ mon' = [mon EXCEPT !.pc = "running",
                         !.stale = h.heartbeat_age * health_check_interval
                                   > health_check_interval * StaleFactor]
                  /\ UNCHANGED watchers
             [] mon.pc = "running" ->
                  \* if time_since_heartbeat > timeout_threshold
                  \*    and health.is_running
                  /\ mon' = [mon EXCEPT !.stale = FALSE,
                         !.pc = IF mon.stale /\ h.is_running THEN "status"
                                ELSE "idle"]
                  /\ UNCHANGED watchers
             [] mon.pc = "status" ->
                  \* health.status = WatcherStatus.FAILED
                  /\ watchers' = [watchers EXCEPT ![1].status = "failed"]
                  /\ mon' = [mon EXCEPT !.pc = "stop"]
             [] mon.pc = "stop" ->
                  \* health.is_running = False
                  /\ watchers' = [watchers EXCEPT ![1].is_running = FALSE]
                  /\ mon' = [mon EXCEPT !.pc = "read"]
             [] mon.pc = "read" ->
                  \* health.consecutive_failures += 1: the read
                  /\ h.consecutive_failures < MaxFailures
                  /\ mon' = [mon EXCEPT !.pc = "write",
                                        !.tmp = h.consecutive_failures]
                  /\ UNCHANGED watchers
             [] mon.pc = "write" ->
                  \* health.consecutive_failures += 1: the write
                  /\ watchers' = [watchers EXCEPT
                                     ![1].consecutive_failures = mon.tmp + 1]
                  /\ mon' = [mon EXCEPT !.pc = "threshold", !.tmp = 0]
             [] mon.pc = "threshold" ->
                  \* if health.consecutive_failures < self._alert_threshold
                  /\ mon' = [mon EXCEPT !.pc =
                         IF h.consecutive_failures < alert_threshold
                         THEN "limit" ELSE "idle"]
                  /\ UNCHANGED watchers
    /\ UNCHANGED <<hb, alerts, streak_alerts, restart_log, mailVars, chatVars,
                   classifyVars, baseVars, hashseed>>

\* one statement of _attempt_restart, called by the monitor thread
RestartStep ==
    /\ watchers # <<>>
    /\ mon.pc \in {"limit", "count", "recovering"}
    /\ LET h == watchers[1]
       IN  CASE mon.pc = "limit" ->
                  \* if restart_attempts >= max_restart_attempts:
                  \* _create_alert and return
                  /\ IF h.restart_attempts >= max_restart_attempts
                     THEN /\ Len(alerts) < MaxAlerts
                          /\ alerts' = Append(alerts, AlertOf(h, "restart"))
                          /\ mon' = [mon EXCEPT !.pc = "idle"]
                     ELSE /\ mon' = [mon EXCEPT !.pc = "count"]
                          /\ UNCHANGED alerts
                  /\ UNCHANGED <<watchers, restart_log>>
             [] mon.pc = "count" ->
                  \* health.restart_attempts += 1 (no other thread writes it)
                  /\ watchers' = [watchers EXCEPT ![1].restart_attempts = @ + 1]
                  /\ mon' = [mon EXCEPT !.pc = "recovering"]
                  /\ UNCHANGED <<alerts, restart_log>>
             [] mon.pc = "recovering" ->
                  \* health.status = WatcherStatus.RECOVERING, and the log line
                  /\ watchers' = [watchers EXCEPT ![1].status = "recovering"]
                  /\ restart_log' = restart_log \cup
                         {RestartLine([h EXCEPT !.status = "recovering"])}
                  /\ mon' = [mon EXCEPT !.pc = "idle"]
                  /\ UNCHANGED alerts
    /\ UNCHANGED <<hb, streak_alerts, mailVars, chatVars, classifyVars,
                   baseVars, hashseed>>

NextRace ==
    \/ RaceRegister
    \/ \E is_healthy \in BOOLEAN : HeartbeatStep(is_healthy)
    \/ CheckStep
    \/ RestartStep
    \/ Tick

SpecRace == InitSupervision /\ [][NextRace]_vars

(***************************************************************************)
(* Properties of the supervision.                                          *)
(***************************************************************************)

\* C5: a failure streak that reaches alert_threshold and keeps failing gets
\* exactly one alert; later failed heartbeats of the streak write none.
C5_OneAlertPerStreak ==
    \A n \in Registered : streak_alerts[n] <= 1

\* a streak one failure past the threshold, with an alert for each of the two
C5_Witness ==
    \E n \in Registered :
        /\ watchers[IndexOf(n)].consecutive_failures = alert_threshold + 1
        /\ streak_alerts[n] = 2

\* C11: the n-th sanctioned restart attempt of a worker (n = 1, 2, 3) is
\* logged with the backoff base * 2^(n-1), that is 30, 60 and 120 seconds, so
\* the backoffs of consecutive attempts are strictly increasing.
C11_BackoffDoubles ==
    /\ \A line \in restart_log :
           /\ line.attempt \in 1..max_restart_attempts
           /\ line.backoff = <<30, 60, 120>>[line.attempt]
    /\ \A a, b \in restart_log :
           (a.watcher = b.watcher /\ b.attempt = a.attempt + 1)
           => a.backoff < b.backoff

\* a worker that was given its three restart attempts
C11_Witness ==
    \E n \in Registered :
        \A k \in 1..max_restart_attempts :
            \E line \in restart_log : line.watcher = n /\ line.attempt = k

\* the alert files written for worker n
AlertsFor(written, n) == Len(SelectSeq(written, LAMBDA a : a.watcher = n))

\* the step is a health check that found the i-th worker stale: only
\* _check_all_watchers clears is_running
FoundStale(i) ==
    /\ i <= Len(watchers')
    /\ watchers[i].is_running /\ ~watchers'[i].is_running

\* C12, as stated: when the health check finds a Healthy worker stale, the
\* worker goes through Failed, its restart_attempts becomes 1 and the check
\* raises no alert for it.
C12_StaleHealthyFirstRestart ==
    [][\A i \in 1..Len(watchers) :
          (watchers[i].status = "healthy" /\ Stale(watchers[i]) /\ FoundStale(i))
          => /\ watchers'[i].status \in {"failed", "recovering"}
             /\ watchers'[i].restart_attempts = 1
             /\ AlertsFor(alerts', watchers[i].name)
                    = AlertsFor(alerts, watchers[i].name)]_vars

\* C12, amended: when the health check finds a Healthy worker stale, then
\* with restart attempts left the worker ends Recovering, its
\* restart_attempts is incremented by one (to 1 for a worker not restarted
\* since registration) and no alert is raised; with the attempts exhausted
\* it ends Failed, restart_attempts is unchanged and the check raises the
\* alert at once, on its first consecutive failure.
C12_StaleHealthyRestartOrAlert ==
    [][\A i \in 1..Len(watchers) :
          (watchers[i].status = "healthy" /\ Stale(watchers[i]) /\ FoundStale(i))
          => /\ watchers'[i].consecutive_failures = 1
             /\ IF watchers[i].restart_attempts < max_restart_attempts
                THEN /\ watchers'[i].status = "recovering"
                     /\ watchers'[i].restart_attempts
                            = watchers[i].restart_attempts + 1
                     /\ AlertsFor(alerts', watchers[i].name)
                            = AlertsFor(alerts, watchers[i].name)
                ELSE /\ watchers'[i].status = "failed"
                     /\ watchers'[i].restart_attempts
                            = watchers[i].restart_attempts
                     /\ AlertsFor(alerts', watchers[i].name)
                            \in {AlertsFor(alerts, watchers[i].name),
                                 AlertsFor(alerts, watchers[i].name) + 1}]_vars

\* a worker found stale for the first time since its registration: one
\* failure, one restart attempt, Recovering, no alert
C12_Witness ==
    \E i \in 1..Len(watchers) :
        /\ watchers[i].status = "recovering"
        /\ ~watchers[i].is_running
        /\ watchers[i].consecutive_failures = 1
        /\ watchers[i].restart_attempts = 1
        /\ alerts = <<>>

\* C15: update_heartbeat(name, False) on a registered worker adds one to
\* consecutive_failures and leaves the status Degraded when the count is 1 or
\* 2 and Failed when it is 3 or more; update_heartbeat(name, True) leaves
\* the status Healthy and the count 0, whatever the status was.
C15_HeartbeatStatus ==
    [][\A n \in Registered, alert_ok \in BOOLEAN :
          /\ UpdateHeartbeat(n, FALSE, alert_ok)
             => /\ watchers'[IndexOf(n)].consecutive_failures
                       = watchers[IndexOf(n)].consecutive_failures + 1
                /\ watchers'[IndexOf(n)].status =
                       IF watchers'[IndexOf(n)].consecutive_failures \in {1, 2}
                       THEN "degraded" ELSE "failed"
          /\ UpdateHeartbeat(n, TRUE, alert_ok)
             => /\ watchers'[IndexOf(n)].status = "healthy"
                /\ watchers'[IndexOf(n)].consecutive_failures = 0]_vars

\* a worker Failed by its third failed heartbeat in a row
C15_Witness ==
    \E i \in 1..Len(watchers) :
        /\ watchers[i].status = "failed"
        /\ watchers[i].consecutive_failures = 3
        /\ watchers[i].is_running
        /\ watchers[i].heartbeat_age = 0
        /\ watchers[i].restart_attempts = 0

\* C16: restart_attempts of a worker changes in two ways only: the health
\* check that finds the worker stale adds one as the worker goes from Failed
\* to Recovering, and the registration of the worker sets it to 0; a
\* heartbeat, healthy or not, leaves it as it is.
C16_RestartAttemptsFrame ==
    [][/\ \A i \in 1..Len(watchers) :
             watchers'[i].restart_attempts # watchers[i].restart_attempts
             => \/ /\ watchers'[i].restart_attempts
                          = watchers[i].restart_attempts + 1
                   /\ FoundStale(i)
                   /\ watchers'[i].status = "recovering"
                \/ watchers'[i] = NewWatcherHealth(watchers[i].name)
       /\ \A n \in Registered, is_healthy, alert_ok \in BOOLEAN :
             UpdateHeartbeat(n, is_healthy, alert_ok)
             => watchers'[IndexOf(n)].restart_attempts
                    = watchers[IndexOf(n)].restart_attempts]_vars

\* a worker restarted twice and Healthy again: the healthy heartbeat kept
\* the count
C16_Witness ==
    \E i \in 1..Len(watchers) :
        /\ watchers[i].status = "healthy"
        /\ watchers[i].is_running
        /\ watchers[i].restart_attempts = 2

\* C17: an alert file is written for a worker only when its
\* consecutive_failures is at least alert_threshold or its restart_attempts
\* is at least max_restart_attempts.
C17_AlertOnlyPastLimits ==
    [][\A n \in Registered :
          AlertsFor(alerts', n) > AlertsFor(alerts, n)
          => \/ watchers'[IndexOf(n)].consecutive_failures >= 5
             \/ watchers'[IndexOf(n)].restart_attempts >= 3]_vars

\* one alert of each kind: restart attempts exhausted with a single
\* failure, and a streak of failed heartbeats that reached the threshold
C17_Witness ==
    /\ \E k \in 1..Len(alerts) : alerts[k].cause = "restart"
    /\ \E k \in 1..Len(alerts) : alerts[k].cause = "threshold"

\* the step brings no heartbeat and no registration of worker n
Silent(n) ==
    /\ ~RegisterWatcher(n)
    /\ \A is_healthy, alert_ok \in BOOLEAN :
           ~UpdateHeartbeat(n, is_healthy, alert_ok)

\* C18: a registered worker that stops sending heartbeats for good is, with
\* the health check running every interval, restarted up to
\* max_restart_attempts times and then escalated: an alert is written for it.
C18_SilentWorkerEscalated ==
    \A n \in Workers :
        (<>(n \in Registered) /\ <>[][Silent(n)]_vars)
        => <>(AlertsFor(alerts, n) > 0)

\* the worker found stale once: not running, one restart attempt logged,
\* the heartbeat still absent, no alert
C18_Witness ==
    \E i \in 1..Len(watchers) :
        /\ ~watchers[i].is_running
        /\ watchers[i].status = "recovering"
        /\ watchers[i].restart_attempts = 1
        /\ watchers[i].heartbeat_age > StaleFactor
        /\ alerts = <<>>

\* C28: when the health check calls _attempt_restart for a worker (found
\* stale, fewer consecutive failures than alert_threshold), then with
\* restart_attempts at max_restart_attempts or above the counter is
\* unchanged, the status stays Failed and an alert is written (unless its
\* file cannot be written); otherwise the counter grows by exactly 1, the
\* status is Recovering and no alert is written.
C28_AttemptRestartBounded ==
    [][\A i \in 1..Len(watchers) :
          (FoundStale(i)
           /\ watchers[i].consecutive_failures + 1 < alert_threshold)
          => LET n == watchers[i].name
                 before == AlertsFor(alerts, n)
             IN  IF watchers[i].restart_attempts >= max_restart_attempts
                 THEN /\ watchers'[i].restart_attempts
                             = watchers[i].restart_attempts
                      /\ watchers'[i].status = "failed"
                      /\ AlertsFor(alerts', n) \in {before, before + 1}
                      /\ CheckAllWatchers([w \in Workers |-> TRUE])
                             => AlertsFor(alerts', n) = before + 1
                 ELSE /\ watchers'[i].restart_attempts
                             = watchers[i].restart_attempts + 1
                      /\ watchers'[i].status = "recovering"
                      /\ AlertsFor(alerts', n) = before]_vars

\* a worker restarted max_restart_attempts times was found stale once more:
\* Failed, the counter at the limit, and the alert of the restart written
C28_Witness ==
    \E i \in 1..Len(watchers) :
        /\ watchers[i].restart_attempts = max_restart_attempts
        /\ watchers[i].status = "failed" /\ ~watchers[i].is_running
        /\ watchers[i].consecutive_failures < alert_threshold
        /\ [watcher |-> watchers[i].name, attempt |-> max_restart_attempts,
            backoff |-> Backoff(max_restart_attempts)] \in restart_log
        /\ \E k \in 1..Len(alerts) :
               alerts[k] = AlertOf(watchers[i], "restart")

\* C29: in every state the supervisor reaches, one round of the loop of
\* _check_all_watchers leaves a worker whose heartbeat is not older than 3
\* health check intervals unchanged; it marks a worker whose heartbeat is
\* older Failed, and _attempt_restart acts on that worker (a restart is
\* sanctioned or the alert is raised) exactly when its consecutive failures
\* are below alert_threshold.
C29_EveryStaleWorkerHandled ==
    \A i \in 1..Len(watchers) :
        LET h == watchers[i]
            checked == CheckWatcher(h)
        IN  IF h.heartbeat_age * health_check_interval
                   <= health_check_interval * StaleFactor
            THEN /\ checked.health = h
                 /\ ~checked.alert /\ ~checked.restarted
            ELSE /\ checked.health.status
                        = IF checked.restarted THEN "recovering" ELSE "failed"
                 /\ (checked.restarted \/ checked.alert)
                        <=> checked.health.consecutive_failures
                                < alert_threshold

\* a worker already found stale once: its heartbeat is older than 3
\* intervals, it is not running, Recovering after one restart attempt
C29_Witness ==
    \E i \in 1..Len(watchers) :
        /\ watchers[i].heartbeat_age > StaleFactor
        /\ ~watchers[i].is_running
        /\ watchers[i].status = "recovering"
        /\ watchers[i].consecutive_failures = 1
        /\ watchers[i].restart_attempts = 1
        /\ restart_log = {RestartLine(watchers[i])}
        /\ alerts = <<>>

\* C30: an outage is counted once. For a worker that _check_all_watchers
\* has found stale (is_running is False), no step but a heartbeat of that
\* worker or its registration changes consecutive_failures or
\* restart_attempts, a further _check_all_watchers least of all, and only
\* a healthy heartbeat or a new registration ends the outage.
C30_OutageCountedOnce ==
    [][\A i \in 1..Len(watchers) :
          ~watchers[i].is_running =>
              /\ \/ /\ watchers'[i].consecutive_failures
                            = watchers[i].consecutive_failures
                     /\ watchers'[i].restart_attempts
                            = watchers[i].restart_attempts
                     /\ ~watchers'[i].is_running
                 \/ \E is_healthy, alert_ok \in BOOLEAN :
                        UpdateHeartbeat(watchers[i].name, is_healthy, alert_ok)
                 \/ RegisterWatcher(watchers[i].name)
              /\ watchers'[i].is_running =>
                     \/ UpdateHeartbeat(watchers[i].name, TRUE, TRUE)
                     \/ RegisterWatcher(watchers[i].name)]_vars

\* two outages with a healthy heartbeat between them, each counted once:
\* the worker is stale and not running after its second restart attempt,
\* with one consecutive failure
C30_Witness ==
    \E i \in 1..Len(watchers) :
        /\ ~watchers[i].is_running
        /\ watchers[i].heartbeat_age > StaleFactor
        /\ watchers[i].consecutive_failures = 1
        /\ watchers[i].restart_attempts = 2
        /\ Cardinality(restart_log) = 2
        /\ alerts = <<>>

\* C31: a worker that is Recovering leaves that status only to Healthy or
\* to Failed, and no step moves a Recovering or a Failed worker to Degraded.
C31_NoDegradedAfterFailed ==
    [][\A i \in 1..Len(watchers) :
          /\ watchers[i].status = "recovering" =>
                 watchers'[i].status \in {"recovering", "healthy", "failed"}
          /\ watchers[i].status \in {"recovering", "failed"} =>
                 watchers'[i].status # "degraded"]_vars

\* a worker found stale and sent to Recovering got an unhealthy heartbeat:
\* it is Degraded with two consecutive failures, still marked not running
C31_Witness ==
    \E i \in 1..Len(watchers) :
        /\ watchers[i].status = "degraded"
        /\ watchers[i].consecutive_failures = 2
        /\ watchers[i].restart_attempts = 1
        /\ ~watchers[i].is_running
        /\ watchers[i].heartbeat_age = 0

\* C32: in BaseWatcher.run, a call of create_action_file that fails (it
\* returns None or raises) does not end the loop, and the items of the
\* batch behind the failed one are still to be handled in the same round.
C32_FailedItemKeepsBatch ==
    [][\A outcome \in {"none", "raise"} :
          (/\ base_pc = "create" /\ ~stop_event
           /\ BaseCreateActionFile(outcome))
          => /\ base_items' = Tail(base_items)
             /\ base_pc' = IF Tail(base_items) = <<>> THEN "wait"
                            ELSE "create"]_vars

\* create_action_file raised on an item with others behind it in the batch;
\* the round has ended with no call for them, and nobody called stop()
C32_Witness ==
    /\ base_calls # <<>> /\ ~stop_event
    /\ base_calls[Len(base_calls)].outcome = "raise"
    /\ base_calls[Len(base_calls)].left > 0
    /\ base_calls[Len(base_calls)].cycle = base_cycle
    /\ base_pc = "wait" /\ base_items = <<>>

\* C33: whenever check_and_execute or check_and_move has returned, every
\* plan id of the in-memory processed set is in the set file too, so that
\* the next process skips the same plans.
C33_ProcessedPlansPersisted ==
    /\ exec_processed \subseteq exec_file
    /\ mover_processed \subseteq mover_file

\* check_and_execute has met a plan it could not execute, with no failure
\* injected, and its id is in memory only
C33_Witness ==
    /\ faults = 0 /\ restarts = 0
    /\ \E k \in 1..Len(executed) :
           /\ executed[k] \in Malformed
           /\ Stem(executed[k]) \in exec_processed \ exec_file

\* C34: the plans of two different messages never have the same plan id,
\* in whichever plan folders they are, and no step replaces the plan file
\* of one message by the plan of another.
C34_PlanIdsDistinct ==
    [][/\ \A f, g \in PlanFolders :
             \A n \in DOMAIN vault'[f] \cap DOMAIN vault'[g] :
                 vault'[f][n].message_id = vault'[g][n].message_id
       /\ \A f \in PlanFolders :
             \A n \in DOMAIN vault[f] \cap DOMAIN vault'[f] :
                 vault'[f][n].message_id = vault[f][n].message_id]_vars

\* with no failure and no restart, two messages of one poll have got the
\* same plan id: the one plan file of that name holds the plan of the
\* later message, and the earlier message has no plan left in the vault
C34_Witness ==
    /\ faults = 0 /\ restarts = 0
    /\ \E a, b \in Mail :
           LET n == PlanId(now, a.subject) \o ".md"
           IN  /\ a.id # b.id /\ {a.id, b.id} \subseteq processed_ids
               /\ PlanId(now, b.subject) \o ".md" = n
               /\ Branch(AnalysisOfMail[a.id, hashseed]) = "plan"
               /\ \A f \in PlanFolders : \A m \in DOMAIN vault[f] :
                      vault[f][m].message_id # a.id
               /\ \E f \in PlanFolders :
                      /\ Exists(vault, f, n)
                      /\ vault[f][n].message_id = b.id

\* C38: in every reachable state of the FailureManager, every registered
\* watcher has 0 <= restart_attempts <= max_restart_attempts.
C38_RestartAttemptsInRange ==
    \A i \in 1..Len(watchers) :
        /\ watchers[i].restart_attempts >= 0
        /\ watchers[i].restart_attempts <= max_restart_attempts

\* a watcher at the limit for which _attempt_restart has raised the alert
\* instead of counting another attempt
C38_Witness ==
    \E i \in 1..Len(watchers) :
        /\ watchers[i].restart_attempts = max_restart_attempts
        /\ watchers[i].status = "failed"
        /\ AlertsFor(alerts, watchers[i].name) > 0

\* C39: with update_heartbeat and _check_all_watchers interleaved statement
\* by statement, a watcher whose status is Healthy has consecutive_failures
\* 0 and is_running TRUE in every reachable state, and no step counts a
\* restart attempt for a watcher whose latest heartbeat was healthy and is
\* not stale.
C39_HealthyConsistentUnderRace ==
    /\ [](\A i \in 1..Len(watchers) :
             watchers[i].status = "healthy"
             => /\ watchers[i].consecutive_failures = 0
                /\ watchers[i].is_running)
    /\ [][\A i \in 1..Len(watchers) :
             watchers'[i].restart_attempts > watchers[i].restart_attempts
             => ~(/\ hb.pc = "idle" /\ hb.last = "healthy"
                  /\ watchers[i].heartbeat_age <= StaleFactor)]_vars

\* both calls have returned, the latest heartbeat was healthy and is fresh,
\* and the watcher is left Healthy with a failure counted and not running
C39_Witness ==
    /\ hb.pc = "idle" /\ mon.pc = "idle"
    /\ hb.last = "healthy"
    /\ \E i \in 1..Len(watchers) :
           /\ watchers[i].status = "healthy"
           /\ watchers[i].heartbeat_age = 0
           /\ watchers[i].consecutive_failures > 0
           /\ ~watchers[i].is_running

\* dst holds everything src holds: the same fields with the same values,
\* but for the stamps a move adds (one more status, plan_id, sent_to)
Complete(src, dst) ==
    /\ DOMAIN dst = DOMAIN src
    /\ \A k \in DOMAIN src \ {"status", "plan_id", "sent_to"} : dst[k] = src[k]
    /\ Len(dst.status) >= Len(src.status)
    /\ SubSeq(dst.status, 1, Len(src.status)) = src.status

\* C40: wherever a move between state folders stops, at its write, between
\* its write and its removal, or at its end, the file it moves is in some
\* state folder with its complete content: untouched in the source, or
\* complete in the destination once the source is gone. The two moves of
\* the code are applied to every plan of Approved and every email of
\* Needs_Action of the reachable vaults.
C40_MoveKeepsContent ==
    /\ \A fault \in {"none", "write_done", "unlink_plan"} :
           \A n \in DOMAIN vault["Approved"] :
               LET src == vault["Approved"][n]
                   v   == MovePlanToDone(vault, n, src.from, fault)
               IN  IF Exists(v, "Approved", n)
                   THEN v["Approved"][n] = src
                   ELSE Exists(v, "Done", n) /\ Complete(src, v["Done"][n])
    /\ \A fault \in {"none", "inbox_write", "email_unlink"} :
           \A n \in DOMAIN vault["Needs_Action"] :
               LET src == vault["Needs_Action"][n]
                   v   == MoveEmailToInbox(vault, n, PlanId(now, src.subject),
                                           "executed", fault)
               IN  IF Exists(v, "Needs_Action", n)
                   THEN v["Needs_Action"][n] = src
                   ELSE Exists(v, "Inbox", n) /\ Complete(src, v["Inbox"][n])

\* the executor failed between the write to Done and the removal from
\* Approved: the plan is complete in both folders
C40_Witness ==
    /\ faults > 0
    /\ \E n \in DOMAIN vault["Approved"] \cap DOMAIN vault["Done"] :
           /\ Complete(vault["Approved"][n], vault["Done"][n])
           /\ vault["Done"][n].status
                  = Append(vault["Approved"][n].status, "executed")

=========================================================================
